---- MODULE Spec2Model ----
(***************************************************************************)
(* A state-machine model of mxEdgeHandler (javascript/src/js/handler/      *)
(* mxEdgeHandler.js): the pointer-event handlers mouseDown, mouseMove and  *)
(* mouseUp, the preview computation and the commit operations of one       *)
(* selected edge.  The graph model, the view, the cell marker and the      *)
(* constraint handler are collaborators that live outside that file; they  *)
(* are modelled by their contracts.                                        *)
(*                                                                         *)
(* Conventions.  A JavaScript null is None (the empty tuple) for optional  *)
(* points and lists, Some(v) == <<v>> otherwise; a null cell or a null     *)
(* error string is the string Null; a null handle index is NoIndex.        *)
(* Screen coordinates and logical coordinates are integers; the view scale *)
(* is a positive integer and the pointer positions are chosen so that      *)
(* every unrounded division by the scale is exact.                         *)
(***************************************************************************)
EXTENDS Integers, Sequences, FiniteSets, TLC

VARIABLES
    handler,    \* the fields of the mxEdgeHandler instance (this.*)
    model,      \* the graph model: the edge's geometry and terminals, cloned edges, selection
    view,       \* the edge's mxCellState: absolutePoints and absoluteOffset
    config,     \* graph and handler settings, fixed during a behaviour
    pressed,    \* whether the pointer button is down
    last        \* history: what the last callback that did anything did

vars == <<handler, model, view, config, pressed, last>>

----------------------------------------------------------------------------
(* Values *)

Null == "null"
None == <<>>
Some(v) == <<v>>
IsSome(o) == o # None
Val(o) == o[1]

Pt(px, py) == [x |-> px, y |-> py]

\* An array slot that was never assigned (JavaScript undefined).
Undefined == Pt(-1, -1)

\* this.index == null
NoIndex == -2

\* mxEvent.LABEL_HANDLE
LABEL_HANDLE == -1

\* mxConstants.HANDLE_SIZE and mxConstants.LABEL_HANDLE_SIZE
HANDLE_SIZE == 7
LABEL_HANDLE_SIZE == 4

\* mxGraph.prototype.gridSize
gridSize == 10

\* mxEdgeHandler.prototype.tolerance
tolerance == 0

\* mxGraph.panDx, mxGraph.panDy: no panning is in progress during a gesture
panDx == 0
panDy == 0

\* Colours of the preview shape
EDGE_SELECTION_COLOR == "selection"
validColor == "valid"
invalidColor == "invalid"

----------------------------------------------------------------------------
(* Bounds of the model *)

\* most waypoints an edge gets by add-waypoint
MaxPoints == 2

\* most edges a clone-reconnect adds
MaxClones == 1

\* The largest screen coordinate whose conversion is tried
MaxCoord == 24

\* most callbacks of a behaviour in which the callbacks come in any order
MaxEvents == 5

----------------------------------------------------------------------------
(* Arithmetic *)

Abs(n) == IF n < 0 THEN -n ELSE n

\* Math.round(n / d) for d > 0: the nearest integer, a tie going up.
RoundDiv(n, d) == (2 * n + d) \div (2 * d)

\* n / d where the quotient is used unrounded
ExactDiv(n, d) == n \div d

Min(a, b) == IF a < b THEN a ELSE b
Max(a, b) == IF a > b THEN a ELSE b
Clamp(n, lo, hi) == Max(lo, Min(hi, n))

----------------------------------------------------------------------------
(* The graph: its cells and the policies the handler asks for *)

\* The vertices an end of the edge can be attached to.
Cells == {"A", "B", "C", "X"}

\* The centre of each vertex in logical coordinates.
CellCenter(c) ==
    CASE c = "A" -> Pt(10, 10)
      [] c = "B" -> Pt(50, 10)
      [] c = "C" -> Pt(30, 40)
      [] OTHER   -> Pt(50, 40)

\* mxGraph.getEdgeValidationError(edge, source, target): null when the
\* connection is allowed, '' when it is refused without a message (a loop),
\* a message otherwise (vertex X refuses every edge).
getEdgeValidationError(source, target) ==
    IF source = "X" \/ target = "X" THEN "msg"
    ELSE IF source # Null /\ source = target THEN ""
    ELSE Null

\* mxGraph.snap(value): rounds value = n / d to the grid when the grid is on.
\* The result is an integer whenever the grid is on; with the grid off the
\* value is returned as it is (n / d has to be a whole number then).
snap(n, d) ==
    IF config.gridEnabled THEN RoundDiv(n, d * gridSize) * gridSize
    ELSE ExactDiv(n, d)

\* mxGraph.isGridEnabledEvent(evt): the grid is on and alt is not pressed
isGridEnabledEvent(me) == config.gridEnabled /\ ~me.alt

\* The origin of the state of the edge's parent (the default layer).
pstateOrigin == Pt(0, 0)

----------------------------------------------------------------------------
(* The view: mxGraphView for an edge without an edge style *)

\* mxGraphView.transformControlPoint: logical to screen coordinates
transformControlPoint(p) ==
    IF p = Undefined THEN Undefined
    ELSE Pt((p.x + config.tr.x + pstateOrigin.x) * config.scale,
            (p.y + config.tr.y + pstateOrigin.y) * config.scale)

RECURSIVE transformAll(_)
transformAll(ps) ==
    IF ps = <<>> THEN <<>>
    ELSE <<transformControlPoint(Head(ps))>> \o transformAll(Tail(ps))

\* mxGraphView.getRoutingCenterX/Y of a terminal state
getRoutingCenter(c) == transformControlPoint(CellCenter(c))

\* The absolute terminal point of an end: the centre of the terminal when the
\* end is attached, the geometry's terminal point when it dangles.
terminalPoint(terminal, tp) ==
    IF terminal # Null THEN getRoutingCenter(terminal)
    ELSE IF IsSome(tp) THEN transformControlPoint(Val(tp))
    ELSE transformControlPoint(Pt(0, 0))

\* mxGraphView.updatePoints: the two ends and the transformed waypoints between
updatePoints(p0, points, pe) ==
    <<p0>> \o (IF IsSome(points) THEN transformAll(Val(points)) ELSE <<>>) \o <<pe>>

\* mxGraphView.getRelativePoint(edgeState, x, y): the anchor of the label on
\* the edge nearest to (x, y), relative to the first absolute point.  The
\* anchor is the point of the box spanned by the edge's two ends nearest to
\* (x, y).
getRelativePoint(abs, px, py) ==
    LET p0 == abs[1]
        pe == abs[Len(abs)]
    IN  Pt(Clamp(px, Min(p0.x, pe.x), Max(p0.x, pe.x)) - p0.x,
           Clamp(py, Min(p0.y, pe.y), Max(p0.y, pe.y)) - p0.y)

\* mxGraphView.getPoint(edgeState, geometry): the absolute label position a
\* geometry gives: the anchor plus the offset times the scale.
getPoint(abs, geo) ==
    Pt(abs[1].x + geo.x + geo.offset.x * config.scale,
       abs[1].y + geo.y + geo.offset.y * config.scale)

\* mxGraphView.validate for the edge: the state computed from the model
validate(m) ==
    LET abs == updatePoints(terminalPoint(m.source, m.geo.sourcePoint),
                            m.geo.points,
                            terminalPoint(m.target, m.geo.targetPoint))
    IN  [absolutePoints |-> abs, absoluteOffset |-> getPoint(abs, m.geo)]

\* a / b < c / d for b, d > 0 and a, c >= 0, without forming the products
RECURSIVE FracLess(_, _, _, _)
FracLess(a, b, c, d) ==
    IF a \div b # c \div d THEN a \div b < c \div d
    ELSE IF c % d = 0 THEN FALSE
    ELSE IF a % b = 0 THEN TRUE
    ELSE FracLess(d, c % d, b, a % b)

\* mxUtils.ptSegDistSq as the fraction [n, d] (d > 0): the squared distance of
\* p to an end of the segment when its projection falls outside, to the line
\* through the segment otherwise
ptSegDistSq(a, b, p) ==
    LET x2 == b.x - a.x
        y2 == b.y - a.y
        px == p.x - a.x
        py == p.y - a.y
        dot1 == px * x2 + py * y2
        qx == x2 - px
        qy == y2 - py
        dot2 == qx * x2 + qy * y2
        cross == qx * y2 - qy * x2
    IN  IF dot1 <= 0 THEN [n |-> px * px + py * py, d |-> 1]
        ELSE IF dot2 <= 0 THEN [n |-> qx * qx + qy * qy, d |-> 1]
        ELSE [n |-> cross * cross, d |-> x2 * x2 + y2 * y2]

\* mxUtils.findNearestSegment(state, x, y): the index of the first segment of
\* the absolute points at least distance from (x, y)
RECURSIVE nearestFrom(_, _, _, _, _)
nearestFrom(abs, i, p, min, index) ==
    IF i > Len(abs) THEN index
    ELSE LET dist == ptSegDistSq(abs[i - 1], abs[i], p)
         IN  IF min = None \/ FracLess(dist.n, dist.d, Val(min).n, Val(min).d)
             THEN nearestFrom(abs, i + 1, p, Some(dist), i - 2)
             ELSE nearestFrom(abs, i + 1, p, min, index)

findNearestSegment(abs, p) == nearestFrom(abs, 2, p, None, -1)

----------------------------------------------------------------------------
(* The graph model *)

\* The edge being handled is cell 0; the i-th cloned edge is cell i.
EdgeCell == 0

\* Records in W.out whether a change of the model is made outside every
\* transaction (no beginUpdate is open)
changed(W) == [W EXCEPT !.out.bare = @ \/ W.m.updateLevel = 0]

\* model.setGeometry(edge, geo) for the handled edge, and the revalidation of
\* the view that the change event triggers
setGeometry(W, geo) ==
    LET m == [W.m EXCEPT !.geo = geo]
    IN  [changed(W) EXCEPT !.m = m, !.v = validate(m)]

\* mxGraph.resetEdge: drops the waypoints of a geometry that has some
resetEdge(geo) ==
    IF IsSome(geo.points) /\ Len(Val(geo.points)) > 0
    THEN [geo EXCEPT !.points = Some(<<>>)]
    ELSE geo

\* mxGraph.connectCell(edge, terminal, isSource, constraint) and the
\* cellConnected it runs: sets the terminal of that end and, with
\* resetEdgesOnConnect, drops the waypoints of the edge.
connectEnd(e, terminal, isSource) ==
    LET e1 == IF isSource THEN [e EXCEPT !.source = terminal]
              ELSE [e EXCEPT !.target = terminal]
    IN  IF config.resetEdgesOnConnect THEN [e1 EXCEPT !.geo = resetEdge(e1.geo)]
        ELSE e1

connectCell(W, cell, terminal, isSource) ==
    IF cell = EdgeCell
    THEN LET e == connectEnd([source |-> W.m.source, target |-> W.m.target, geo |-> W.m.geo],
                             terminal, isSource)
             m == [W.m EXCEPT !.source = e.source, !.target = e.target, !.geo = e.geo]
         IN  [changed(W) EXCEPT !.m = m, !.v = validate(m)]
    ELSE [changed(W) EXCEPT !.m.clones[cell] = connectEnd(W.m.clones[cell], terminal, isSource)]

\* mxCell.clone and model.add(parent, clone, index): a new edge with a copy of
\* the geometry and no terminals; returns the world and the new cell
addClone(W) ==
    [changed(W) EXCEPT !.m.clones = Append(W.m.clones,
                                  [source |-> Null, target |-> Null, geo |-> W.m.geo])]

\* model.getTerminal(cell, isSource)
getTerminal(m, cell, isSource) ==
    IF cell = EdgeCell THEN (IF isSource THEN m.source ELSE m.target)
    ELSE (IF isSource THEN m.clones[cell].source ELSE m.clones[cell].target)

\* model.beginUpdate and model.endUpdate
beginUpdate(W) == [W EXCEPT !.m.updateLevel = @ + 1, !.out.begins = @ + 1]
endUpdate(W) == [W EXCEPT !.m.updateLevel = @ - 1, !.out.ends = @ + 1]

----------------------------------------------------------------------------
(* Arrays *)

\* a[i0] = v for a JavaScript array and a 0-based index: slots between the
\* old end and i0 stay undefined
RECURSIVE ArraySet(_, _, _)
ArraySet(a, i0, v) ==
    IF i0 < 0 THEN a
    ELSE IF i0 < Len(a) THEN [a EXCEPT ![i0 + 1] = v]
    ELSE IF i0 = Len(a) THEN Append(a, v)
    ELSE ArraySet(Append(a, Undefined), i0, v)

\* a.splice(start, 0, v)
SpliceIn(a, start, v) ==
    LET k == IF start < 0 THEN Max(Len(a) + start, 0) ELSE Min(start, Len(a))
    IN  SubSeq(a, 1, k) \o <<v>> \o SubSeq(a, k + 1, Len(a))

\* a.splice(start, 1)
SpliceOut(a, start) ==
    LET k == IF start < 0 THEN Max(Len(a) + start, 0) ELSE Min(start, Len(a))
    IN  SubSeq(a, 1, k) \o SubSeq(a, k + 2, Len(a))

----------------------------------------------------------------------------
(* Hit detection *)

allowHandleBoundsCheck == TRUE

\* mxClient.IS_IE
IS_IE == FALSE

\* mxUtils.intersects(a, b)
intersects(a, b) ==
    IF b.width <= 0 \/ b.height <= 0 \/ a.width <= 0 \/ a.height <= 0 THEN FALSE
    ELSE LET rw == b.width + b.x
             rh == b.height + b.y
             tw == a.width + a.x
             th == a.height + a.y
         IN  /\ (rw < b.x \/ rw > a.x)
             /\ (rh < b.y \/ rh > a.y)
             /\ (tw < a.x \/ tw > b.x)
             /\ (th < a.y \/ th > b.y)

\* The bounds of a handle shape of the given size
boundsOf(shape, size) == [x |-> shape.x, y |-> shape.y, width |-> size, height |-> size]

\* The bounds a handle of the given size gets when it is redrawn centred on p
centredOn(p, size) ==
    Pt(RoundDiv(2 * p.x - size, 2), RoundDiv(2 * p.y - size, 2))

\* checkShape of getHandleForEvent: whether the shape qualifies and is at
\* least as near as the nearest so far; min is four times the squared
\* distance of the pointer to the centre of the nearest shape so far
checkShape(exists, shape, size, isSource, me, min) ==
    LET tol == IF me.mouse THEN 1 ELSE tolerance
        hasHit == allowHandleBoundsCheck /\ (IS_IE \/ tol > 0)
        hit == [x |-> me.x - tol, y |-> me.y - tol, width |-> 2 * tol, height |-> 2 * tol]
        dx == 2 * me.x - (2 * shape.x + size)
        dy == 2 * me.y - (2 * shape.y + size)
        tmp == dx * dx + dy * dy
    IN  IF /\ exists
           /\ shape.visible
           /\ (isSource \/ (hasHit /\ intersects(boundsOf(shape, size), hit)))
           /\ (min = None \/ tmp <= Val(min))
        THEN [ok |-> TRUE, min |-> Some(tmp)]
        ELSE [ok |-> FALSE, min |-> min]

RECURSIVE checkBends(_, _, _, _, _)
checkBends(bends, i, me, min, result) ==
    IF i > Len(bends) THEN result
    ELSE LET c == checkShape(bends[i].live, bends[i], HANDLE_SIZE,
                             me.src = "bend" /\ me.srcIndex = i - 1, me, min)
         IN  checkBends(bends, i + 1, me, c.min, IF c.ok THEN i - 1 ELSE result)

\* getHandleForEvent that does not look for the label text as event source
getHandleForEvent_ignoresText(h, me) ==
    LET c == checkShape(h.labelShape.present, h.labelShape, LABEL_HANDLE_SIZE,
                        me.src = "label", me, None)
        result == IF c.ok THEN LABEL_HANDLE ELSE NoIndex
    IN  IF IsSome(h.bends) THEN checkBends(Val(h.bends), 1, me, c.min, result)
        ELSE result

\* mxEdgeHandler.prototype.getHandleForEvent: the index of the handle for the
\* event, NoIndex when there is none
getHandleForEvent(h, me) ==
    LET c == IF me.src = "text" THEN [ok |-> TRUE, min |-> None]
             ELSE checkShape(h.labelShape.present, h.labelShape, LABEL_HANDLE_SIZE,
                             me.src = "label", me, None)
        result == IF c.ok THEN LABEL_HANDLE ELSE NoIndex
    IN  IF IsSome(h.bends) THEN checkBends(Val(h.bends), 1, me, c.min, result)
        ELSE result

----------------------------------------------------------------------------
(* Point conversion *)

\* mxEdgeHandler.prototype.getSnapToTerminalTolerance, doubled
getSnapToTerminalTolerance2 == gridSize * config.scale

\* snapToPoint of getPointForEvent on one axis: [v, override]
snapToPoint(acc, target) ==
    IF 2 * Abs(acc.v - target) < getSnapToTerminalTolerance2
    THEN [v |-> target, override |-> TRUE]
    ELSE acc

\* snapToTerminal of getPointForEvent on one axis
snapToTerminal(acc, terminal, isX) ==
    IF terminal # Null
    THEN snapToPoint(acc, IF isX THEN getRoutingCenter(terminal).x
                          ELSE getRoutingCenter(terminal).y)
    ELSE acc

\* One axis of getPointForEvent.  The loop over this.abspoints compares its
\* counter with the array itself, which is never true, so no waypoint is
\* visited.
pointForEventAxis(m, me, v0, tr, isX) ==
    LET a0 == [v |-> v0, override |-> FALSE]
        a1 == IF config.snapToTerminals /\ getSnapToTerminalTolerance2 > 0
              THEN snapToTerminal(snapToTerminal(a0, m.source, isX), m.target, isX)
              ELSE a0
    IN  IF isGridEnabledEvent(me) /\ ~a1.override
        THEN (snap(a1.v - tr * config.scale, config.scale) + tr) * config.scale
        ELSE a1.v

\* mxEdgeHandler.prototype.getPointForEvent
getPointForEvent(m, me) ==
    Pt(pointForEventAxis(m, me, me.x, config.tr.x, TRUE),
       pointForEventAxis(m, me, me.y, config.tr.y, FALSE))

\* mxEdgeHandler.prototype.convertPoint
convertPoint(point, gridEnabled) ==
    LET sx == IF gridEnabled THEN snap(point.x, 1) ELSE point.x
        sy == IF gridEnabled THEN snap(point.y, 1) ELSE point.y
    IN  Pt(RoundDiv(sx - config.tr.x * config.scale, config.scale) - pstateOrigin.x,
           RoundDiv(sy - config.tr.y * config.scale, config.scale) - pstateOrigin.y)

----------------------------------------------------------------------------
(* Construction, redraw and teardown of the handler *)

\* mxEdgeHandler.prototype.isAddPointEvent, isRemovePointEvent: shift is down
isAddPointEvent(me) == me.shift
isRemovePointEvent(me) == me.shift

\* mxEdgeHandler.prototype.setPreviewColor
setPreviewColor(h, color) ==
    IF h.shape.present THEN [h EXCEPT !.shape.stroke = color] ELSE h

\* mxEdgeHandler.prototype.createBends: [bends, points]; every handle is
\* visible (isHandleVisible), interior handles need a bendable edge and start
\* hidden, and each pushes a placeholder onto this.points
RECURSIVE createBendsFrom(_, _, _, _)
createBendsFrom(abspoints, i, bends, points) ==
    IF i >= Len(abspoints) THEN [bends |-> bends, points |-> points]
    ELSE LET terminal == i = 0 \/ i = Len(abspoints) - 1
         IN  IF terminal \/ config.bendable
             THEN createBendsFrom(abspoints, i + 1,
                      Append(bends, [live |-> TRUE, visible |-> terminal, x |-> 0, y |-> 0]),
                      IF terminal THEN points ELSE Append(points, Pt(0, 0)))
             ELSE createBendsFrom(abspoints, i + 1, bends, points)

createBends(abspoints, points) == createBendsFrom(abspoints, 0, <<>>, points)

\* mxEdgeHandler.prototype.redrawInnerBends: an inner handle whose absolute
\* point exists is shown on it, any other inner handle is destroyed
RECURSIVE redrawInnerBends(_, _, _)
redrawInnerBends(bends, abspoints, i) ==
    IF i >= Len(bends) - 1 THEN bends
    ELSE IF ~bends[i + 1].live THEN redrawInnerBends(bends, abspoints, i + 1)
    ELSE IF i < Len(abspoints)
    THEN LET b == centredOn(abspoints[i + 1], HANDLE_SIZE)
         IN  redrawInnerBends(
                 [bends EXCEPT ![i + 1] = [live |-> TRUE, visible |-> TRUE, x |-> b.x, y |-> b.y]],
                 abspoints, i + 1)
    ELSE redrawInnerBends(
             [bends EXCEPT ![i + 1] = [live |-> FALSE, visible |-> FALSE, x |-> 0, y |-> 0]],
             abspoints, i + 1)

\* mxEdgeHandler.prototype.redrawHandles
redrawHandles(h, v) ==
    LET label == Pt(v.absoluteOffset.x, v.absoluteOffset.y)
        lb == centredOn(label, LABEL_HANDLE_SIZE)
        h1 == [h EXCEPT !.label = Some(label),
                        !.labelShape.x = lb.x,
                        !.labelShape.y = lb.y,
                        !.labelShape.visible = config.hasLabel /\ config.labelMovable]
    IN  IF IsSome(h1.bends) /\ Len(Val(h1.bends)) > 0
        THEN LET bends == Val(h1.bends)
                 n == Len(h1.abspoints) - 1
                 bn == Len(bends) - 1
                 b0 == centredOn(h1.abspoints[1], HANDLE_SIZE)
                 be == centredOn(h1.abspoints[n + 1], HANDLE_SIZE)
                 bends1 == [bends EXCEPT ![1].x = b0.x, ![1].y = b0.y]
                 bends2 == [bends1 EXCEPT ![bn + 1].x = be.x, ![bn + 1].y = be.y]
             IN  [h1 EXCEPT !.bends = Some(redrawInnerBends(bends2, h1.abspoints, 1))]
        ELSE h1

\* The loop of redraw that copies the geometry's points into this.points
RECURSIVE redrawPoints(_, _, _, _, _)
redrawPoints(points, bends, abspoints, pts, i) ==
    IF i >= Len(bends) - 1 THEN points
    ELSE IF bends[i + 1].live /\ i < Len(abspoints)
    THEN redrawPoints(ArraySet(points, i - 1, IF i - 1 < Len(pts) THEN pts[i] ELSE Undefined),
                      bends, abspoints, pts, i + 1)
    ELSE redrawPoints(points, bends, abspoints, pts, i + 1)

\* The part of redraw after redrawHandles: this.points is refreshed from the
\* geometry's points pts
refreshPoints(h, pts) ==
    IF IsSome(h.bends) /\ Len(Val(h.bends)) > 0 /\ IsSome(pts)
    THEN [h EXCEPT !.points =
             Some(redrawPoints(IF IsSome(h.points) THEN Val(h.points) ELSE <<>>,
                               Val(h.bends), h.abspoints, Val(pts), 1))]
    ELSE h

\* mxEdgeHandler.prototype.redraw: this.abspoints becomes a shallow copy of
\* the state's absolute points (the points themselves are shared).  The
\* geometry is dereferenced without a test (g.points): a TypeError after
\* redrawHandles when the edge has none
redraw(W) ==
    LET h0 == [W.h EXCEPT !.abspoints = W.v.absolutePoints, !.aliased = TRUE]
    IN  IF W.m.hasGeometry
        THEN [W EXCEPT !.h = refreshPoints(redrawHandles(h0, W.v), W.m.geo.points)]
        ELSE [W EXCEPT !.h = redrawHandles(h0, W.v), !.out.threw = TRUE]

\* mxEdgeHandler.prototype.init: the session fields (index, flags, error) are
\* not touched
init(W) ==
    LET cb == createBends(W.v.absolutePoints, <<>>)
        h1 == [W.h EXCEPT
                 !.marker = [present |-> TRUE, validState |-> Null, markedState |-> Null],
                 !.constraintHandler = [present |-> TRUE, currentFocus |-> Null,
                                        currentConstraint |-> Null],
                 !.points = Some(cb.points),
                 !.abspoints = W.v.absolutePoints,
                 !.aliased = TRUE,
                 !.shape = [present |-> TRUE, stroke |-> EDGE_SELECTION_COLOR],
                 !.bends = Some(cb.bends),
                 !.label = Some(Pt(W.v.absoluteOffset.x, W.v.absoluteOffset.y)),
                 !.labelShape = [present |-> TRUE, visible |-> TRUE, x |-> 0, y |-> 0]]
    IN  redraw([W EXCEPT !.h = h1])

\* destroy that leaves the marker
destroy_keepsMarker(W) ==
    [W EXCEPT !.h.shape = [present |-> FALSE, stroke |-> EDGE_SELECTION_COLOR],
              !.h.labelShape = [present |-> FALSE, visible |-> FALSE, x |-> 0, y |-> 0],
              !.h.constraintHandler = [present |-> FALSE, currentFocus |-> Null,
                                       currentConstraint |-> Null],
              !.h.bends = None]

\* mxEdgeHandler.prototype.destroy
destroy(W) ==
    [W EXCEPT !.h.marker = [present |-> FALSE, validState |-> Null, markedState |-> Null],
              !.h.shape = [present |-> FALSE, stroke |-> EDGE_SELECTION_COLOR],
              !.h.labelShape = [present |-> FALSE, visible |-> FALSE, x |-> 0, y |-> 0],
              !.h.constraintHandler = [present |-> FALSE, currentFocus |-> Null,
                                       currentConstraint |-> Null],
              !.h.bends = None]

\* mxEdgeHandler.prototype.reset
reset(W) ==
    LET h1 == [W.h EXCEPT !.error = Null,
                          !.index = NoIndex,
                          !.label = None,
                          !.points = None,
                          !.active = FALSE,
                          !.isLabel = FALSE,
                          !.isSource = FALSE,
                          !.isTarget = FALSE,
                          !.marker.validState = Null,
                          !.marker.markedState = Null,
                          !.constraintHandler.currentFocus = Null,
                          !.constraintHandler.currentConstraint = Null]
    IN  redraw([W EXCEPT !.h = setPreviewColor(h1, EDGE_SELECTION_COLOR)])

----------------------------------------------------------------------------
(* Commit operations *)

\* Records in W.out that a commit operation ran
ran(W, op) == [W EXCEPT !.out.op = op, !.out.ops = @ + 1]

\* A model mutation that raises an error: nothing is changed
raise(W) == [W EXCEPT !.out.threw = TRUE]

\* moveLabel that stores the residual without dividing it by the scale
moveLabel_unscaledOffset(W, x, y) ==
    LET geometry == W.m.geo
        pt == getRelativePoint(W.v.absolutePoints, x, y)
        g1 == [geometry EXCEPT !.x = pt.x, !.y = pt.y, !.offset = Pt(0, 0)]
        p2 == getPoint(W.v.absolutePoints, g1)
        g2 == [g1 EXCEPT !.offset = Pt(x - p2.x, y - p2.y)]
    IN  IF W.out.fail THEN raise(ran(W, "moveLabel"))
        ELSE setGeometry(ran(W, "moveLabel"), g2)

\* mxEdgeHandler.prototype.moveLabel
moveLabel(W, x, y) ==
    LET geometry == W.m.geo
        pt == getRelativePoint(W.v.absolutePoints, x, y)
        g1 == [geometry EXCEPT !.x = pt.x, !.y = pt.y, !.offset = Pt(0, 0)]
        p2 == getPoint(W.v.absolutePoints, g1)
        g2 == [g1 EXCEPT !.offset = Pt(ExactDiv(x - p2.x, config.scale),
                                        ExactDiv(y - p2.y, config.scale))]
    IN  IF ~W.m.hasGeometry THEN W
        ELSE IF W.out.fail THEN raise(ran(W, "moveLabel"))
        ELSE setGeometry(ran(W, "moveLabel"), g2)

\* The constraint connect hands to graph.connectCell: the current constraint
\* of the constraint handler, a new mxConnectionConstraint when it has none
currentConstraint(h) ==
    IF h.constraintHandler.currentConstraint = Null THEN "default"
    ELSE h.constraintHandler.currentConstraint

\* connect that leaves the other end of the clone unattached
connect_cloneLosesOther(W, edge, terminal, isSource, isClone) ==
    LET W0 == beginUpdate([ran(W, "connect") EXCEPT
                              !.out.clone = isClone,
                              !.out.terminal = terminal,
                              !.out.constraint = currentConstraint(W.h)])
        clone == Len(W0.m.clones) + 1
        W1 == IF isClone THEN addClone(W0) ELSE W0
        edge1 == IF isClone THEN clone ELSE edge
    IN  IF W.out.fail THEN [W |-> endUpdate(raise(W0)), edge |-> edge]
        ELSE [W |-> endUpdate(connectCell(W1, edge1, terminal, isSource)), edge |-> edge1]

\* connect that attaches the terminal to the other end of the edge
connect_wrongEnd(W, edge, terminal, isSource, isClone) ==
    LET W0 == beginUpdate([ran(W, "connect") EXCEPT
                              !.out.clone = isClone,
                              !.out.terminal = terminal,
                              !.out.constraint = currentConstraint(W.h)])
        clone == Len(W0.m.clones) + 1
        other == getTerminal(W0.m, edge, ~isSource)
        W1 == IF isClone THEN connectCell(addClone(W0), clone, other, ~isSource) ELSE W0
        edge1 == IF isClone THEN clone ELSE edge
    IN  IF W.out.fail THEN [W |-> endUpdate(raise(W0)), edge |-> edge]
        ELSE [W |-> endUpdate(connectCell(W1, edge1, terminal, ~isSource)), edge |-> edge1]

\* connect that always hands a new mxConnectionConstraint to connectCell
connect_defaultConstraint(W, edge, terminal, isSource, isClone) ==
    LET W0 == beginUpdate([ran(W, "connect") EXCEPT
                              !.out.clone = isClone,
                              !.out.terminal = terminal,
                              !.out.constraint = "default"])
        clone == Len(W0.m.clones) + 1
        other == getTerminal(W0.m, edge, ~isSource)
        W1 == IF isClone THEN connectCell(addClone(W0), clone, other, ~isSource) ELSE W0
        edge1 == IF isClone THEN clone ELSE edge
    IN  IF W.out.fail THEN [W |-> endUpdate(raise(W0)), edge |-> edge]
        ELSE [W |-> endUpdate(connectCell(W1, edge1, terminal, isSource)), edge |-> edge1]

\* mxEdgeHandler.prototype.connect: [W, edge], the edge the terminal was set on
connect(W, edge, terminal, isSource, isClone) ==
    LET W0 == beginUpdate([ran(W, "connect") EXCEPT
                              !.out.clone = isClone,
                              !.out.terminal = terminal,
                              !.out.constraint = currentConstraint(W.h)])
        clone == Len(W0.m.clones) + 1
        other == getTerminal(W0.m, edge, ~isSource)
        W1 == IF isClone THEN connectCell(addClone(W0), clone, other, ~isSource) ELSE W0
        edge1 == IF isClone THEN clone ELSE edge
    IN  IF W.out.fail THEN [W |-> endUpdate(raise(W0)), edge |-> edge]
        ELSE [W |-> endUpdate(connectCell(W1, edge1, terminal, isSource)), edge |-> edge1]

\* changeTerminalPoint that ends the update only when nothing was raised
changeTerminalPoint_noFinally(W, point, isSource) ==
    LET W0 == beginUpdate(ran(W, "changeTerminalPoint"))
        geo == IF isSource THEN [W.m.geo EXCEPT !.sourcePoint = Some(point)]
               ELSE [W.m.geo EXCEPT !.targetPoint = Some(point)]
    IN  IF W.out.fail THEN raise(W0)
        ELSE endUpdate(connectCell(setGeometry(W0, geo), EdgeCell, Null, isSource))

\* mxEdgeHandler.prototype.changeTerminalPoint
changeTerminalPoint(W, point, isSource) ==
    LET W0 == beginUpdate(ran(W, "changeTerminalPoint"))
        geo == IF isSource THEN [W.m.geo EXCEPT !.sourcePoint = Some(point)]
               ELSE [W.m.geo EXCEPT !.targetPoint = Some(point)]
    IN  IF ~W.m.hasGeometry THEN W
        ELSE IF W.out.fail THEN endUpdate(raise(W0))
        ELSE endUpdate(connectCell(setGeometry(W0, geo), EdgeCell, Null, isSource))

\* mxEdgeHandler.prototype.changePoints
changePoints(W, points) ==
    IF ~W.m.hasGeometry THEN W
    ELSE IF W.out.fail THEN raise(ran(W, "changePoints"))
    ELSE setGeometry(ran(W, "changePoints"), [W.m.geo EXCEPT !.points = points])

\* addPointAt that appends the point to the list
addPointAt_appends(W, x, y) ==
    LET pt == Pt(x, y)
        geo == W.m.geo
        t == config.tr
        s == config.scale
        index == findNearestSegment(W.v.absolutePoints, Pt((pt.x + t.x) * s, (pt.y + t.y) * s))
        points == IF geo.points = None THEN <<pt>>
                  ELSE Append(Val(geo.points), pt)
        W1 == setGeometry(ran(W, "addPoint"), [geo EXCEPT !.points = Some(points)])
    IN  [init(destroy(W1)) EXCEPT !.out.rebuilt = TRUE, !.out.at = index]

\* mxEdgeHandler.prototype.addPointAt
addPointAt(W, x, y) ==
    LET pt == Pt(x, y)
        geo == W.m.geo
        t == config.tr
        s == config.scale
        index == findNearestSegment(W.v.absolutePoints, Pt((pt.x + t.x) * s, (pt.y + t.y) * s))
        points == IF geo.points = None THEN <<pt>>
                  ELSE SpliceIn(Val(geo.points), index, pt)
        W1 == setGeometry(ran(W, "addPoint"), [geo EXCEPT !.points = Some(points)])
    IN  IF ~W.m.hasGeometry THEN W
        ELSE [init(destroy(W1)) EXCEPT !.out.rebuilt = TRUE, !.out.at = index]

\* mxEdgeHandler.prototype.addPoint
addPoint(W, me) ==
    LET pt == convertPoint(Pt(me.x, me.y), isGridEnabledEvent(me))
    IN  addPointAt(W, pt.x, pt.y)

\* removePoint that removes the waypoint after the one of the handle
removePoint_wrongSlot(W, index) ==
    IF index > 0 /\ index < Len(W.h.abspoints) - 1 /\ IsSome(W.m.geo.points)
    THEN LET geo == [W.m.geo EXCEPT !.points = Some(SpliceOut(Val(W.m.geo.points), index))]
             W1 == setGeometry(ran(W, "removePoint"), geo)
         IN  [init(destroy(W1)) EXCEPT !.out.rebuilt = TRUE]
    ELSE W

\* mxEdgeHandler.prototype.removePoint
removePoint(W, index) ==
    IF /\ index > 0 /\ index < Len(W.h.abspoints) - 1
       /\ W.m.hasGeometry /\ IsSome(W.m.geo.points)
    THEN LET geo == [W.m.geo EXCEPT !.points = Some(SpliceOut(Val(W.m.geo.points), index - 1))]
             W1 == setGeometry(ran(W, "removePoint"), geo)
         IN  [init(destroy(W1)) EXCEPT !.out.rebuilt = TRUE]
    ELSE W

----------------------------------------------------------------------------
(* The gesture *)

\* mxEdgeHandler.prototype.start
start(h, m, x, y, index) ==
    LET isSource == IF h.bends = None THEN FALSE ELSE index = 0
        isTarget == IF h.bends = None THEN FALSE ELSE index = Len(Val(h.bends)) - 1
        h1 == [h EXCEPT !.startX = x, !.startY = y,
                        !.isSource = isSource, !.isTarget = isTarget,
                        !.isLabel = (index = LABEL_HANDLE)]
        terminal == getTerminal(m, EdgeCell, isSource)
    IN  IF isSource \/ isTarget
        THEN IF \/ (terminal = Null /\ config.terminalPointMovable)
                \/ (terminal # Null /\ config.disconnectable)
             THEN [h1 EXCEPT !.index = index]
             ELSE h1
        ELSE [h1 EXCEPT !.index = index]

\* mouseDown that calls start whether a handle was resolved or not
mouseDown_startsWithoutHandle(W, me) ==
    LET handle == getHandleForEvent(W.h, me)
    IN  IF config.addEnabled /\ handle = NoIndex /\ isAddPointEvent(me)
        THEN addPoint(W, me)
        ELSE IF ~me.consumed /\ config.graphEnabled
        THEN LET W1 == IF handle # NoIndex /\ config.removeEnabled /\ isRemovePointEvent(me)
                       THEN removePoint(W, handle)
                       ELSE IF handle # LABEL_HANDLE \/ config.labelMovable
                       THEN [W EXCEPT !.h = start(W.h, W.m, me.x, me.y, handle),
                                      !.out.started = TRUE]
                       ELSE W
             IN  [W1 EXCEPT !.out.consumed = TRUE]
        ELSE W

\* mouseDown that arms a session on the handle after it has removed its
\* waypoint
mouseDown_removeArms(W, me) ==
    LET handle == getHandleForEvent(W.h, me)
    IN  IF config.addEnabled /\ handle = NoIndex /\ isAddPointEvent(me)
        THEN addPoint(W, me)
        ELSE IF handle # NoIndex /\ ~me.consumed /\ config.graphEnabled
        THEN LET R == removePoint(W, handle)
                 W1 == IF config.removeEnabled /\ isRemovePointEvent(me)
                       THEN [R EXCEPT !.h = start(R.h, R.m, me.x, me.y, handle)]
                       ELSE IF handle # LABEL_HANDLE \/ config.labelMovable
                       THEN [W EXCEPT !.h = start(W.h, W.m, me.x, me.y, handle),
                                      !.out.started = TRUE]
                       ELSE W
             IN  [W1 EXCEPT !.out.consumed = TRUE]
        ELSE W

\* mxEdgeHandler.prototype.mouseDown
mouseDown(W, me) ==
    LET handle == getHandleForEvent(W.h, me)
    IN  IF config.addEnabled /\ handle = NoIndex /\ isAddPointEvent(me)
        THEN addPoint(W, me)
        ELSE IF handle # NoIndex /\ ~me.consumed /\ config.graphEnabled
        THEN LET W1 == IF config.removeEnabled /\ isRemovePointEvent(me)
                       THEN removePoint(W, handle)
                       ELSE IF handle # LABEL_HANDLE \/ config.labelMovable
                       THEN [W EXCEPT !.h = start(W.h, W.m, me.x, me.y, handle),
                                      !.out.started = TRUE]
                       ELSE W
             IN  [W1 EXCEPT !.out.consumed = TRUE]
        ELSE W

\* marker.isValidState of createMarker: the error of connecting the dragged
\* end to the cell, the other end staying where the model has it
isValidStateError(h, m, cell) ==
    LET otherCell == getTerminal(m, EdgeCell, ~h.isSource)
        source == IF h.isSource THEN cell ELSE otherCell
        target == IF h.isSource THEN otherCell ELSE cell
    IN  getEdgeValidationError(source, target)

\* mxCellMarker.process(me) with the isValidState of createMarker: me.cell is
\* the cell marker.getCell finds under the pointer
process(h, m, me) ==
    IF me.cell = Null
    THEN [h EXCEPT !.marker.validState = Null, !.marker.markedState = Null]
    ELSE LET error == isValidStateError(h, m, me.cell)
         IN  [h EXCEPT !.error = error,
                       !.marker.validState = IF error = Null THEN me.cell ELSE Null,
                       !.marker.markedState = me.cell]

\* mxEdgeHandler.prototype.getPreviewTerminalState: [h, result];
\* constraintHandler.update sets the focus and constraint the event gives
getPreviewTerminalState(h, m, me) ==
    LET h1 == [h EXCEPT !.constraintHandler.currentFocus = me.focus,
                        !.constraintHandler.currentConstraint = me.constraint]
        h2 == process(h1, m, me)
        currentState == h2.marker.validState
        both == h2.constraintHandler.currentFocus # Null
                /\ h2.constraintHandler.currentConstraint # Null
        h3 == IF both
              THEN [h2 EXCEPT !.marker.validState = Null, !.marker.markedState = Null]
              ELSE h2
    IN  [h |-> h3,
         result |-> IF currentState # Null THEN currentState
                    ELSE IF both THEN h2.constraintHandler.currentFocus
                    ELSE Null]

\* getPreviewPoints writing the dragged point one slot too far
getPreviewPoints_wrongSlot(h, m, point) ==
    LET points == m.geo.points
    IN  IF ~h.isSource /\ ~h.isTarget
        THEN IF points = None THEN Some(<<convertPoint(point, FALSE)>>)
             ELSE Some(ArraySet(Val(points), h.index, convertPoint(point, FALSE)))
        ELSE IF config.resetEdgesOnConnect THEN None
        ELSE points

\* mxEdgeHandler.prototype.getPreviewPoints; point is a screen point
getPreviewPoints(h, m, point) ==
    LET points == m.geo.points
    IN  IF ~h.isSource /\ ~h.isTarget
        THEN IF points = None THEN Some(<<convertPoint(point, FALSE)>>)
             ELSE Some(ArraySet(Val(points), h.index - 1, convertPoint(point, FALSE)))
        ELSE IF config.resetEdgesOnConnect THEN None
        ELSE points

\* updatePreviewState that leaves the error as it is over empty space
updatePreviewState_keepsError(h, m, point, terminalState) ==
    LET p0 == IF h.isSource
              THEN (IF terminalState # Null THEN getRoutingCenter(terminalState) ELSE point)
              ELSE terminalPoint(m.source, m.geo.sourcePoint)
        pe == IF h.isTarget
              THEN (IF terminalState # Null THEN getRoutingCenter(terminalState) ELSE point)
              ELSE terminalPoint(m.target, m.geo.targetPoint)
    IN  [h |-> h, absolutePoints |-> updatePoints(p0, h.points, pe)]

\* mxEdgeHandler.prototype.updatePreviewState: [h, absolutePoints], the error
\* of the handler and the absolute points of the preview clone
updatePreviewState(h, m, point, terminalState) ==
    LET p0 == IF h.isSource
              THEN (IF terminalState # Null THEN getRoutingCenter(terminalState) ELSE point)
              ELSE terminalPoint(m.source, m.geo.sourcePoint)
        pe == IF h.isTarget
              THEN (IF terminalState # Null THEN getRoutingCenter(terminalState) ELSE point)
              ELSE terminalPoint(m.target, m.geo.targetPoint)
        h1 == IF (h.isSource \/ h.isTarget) /\ terminalState = Null
                 /\ h.marker.markedState = Null
              THEN [h EXCEPT !.error = IF config.allowDanglingEdges THEN Null ELSE ""]
              ELSE h
    IN  [h |-> h1, absolutePoints |-> updatePoints(p0, h1.points, pe)]

\* The end of mouseMove for a handle other than the label: up is the result
\* of updatePreviewState, terminal the previewed terminal
applyPreview(W, up, terminal, conv) ==
    LET color == IF up.h.error = Null THEN validColor ELSE invalidColor
    IN  [W EXCEPT !.h = [setPreviewColor(up.h, color) EXCEPT
                            !.abspoints = up.absolutePoints,
                            !.aliased = FALSE,
                            !.active = TRUE],
                  !.out.consumed = TRUE,
                  !.out.terminal = terminal,
                  !.out.conv = conv]

\* mouseMove from the terminal state on: ts is [h, result], the handler after
\* getPreviewTerminalState and the terminal state it returned
previewTerminal(W, point, ts) ==
    applyPreview(W, updatePreviewState(ts.h, W.m, point, ts.result), ts.result,
                IF W.h.isSource \/ W.h.isTarget THEN None
                ELSE Some(convertPoint(point, FALSE)))

\* mouseMove from the preview points on: h1 is the handler with this.points
\* set from getPreviewPoints
previewPoints(W, me, point, h1) ==
    previewTerminal(W, point, IF h1.isSource \/ h1.isTarget
                              THEN getPreviewTerminalState(h1, W.m, me)
                              ELSE [h |-> h1, result |-> Null])

\* mouseMove that writes the preview points into the geometry of the edge
movePoint_writesGeometry(W, me, point) ==
    IF W.h.isLabel
    THEN [W EXCEPT !.h.label = Some(point), !.out.consumed = TRUE]
    ELSE previewPoints([W EXCEPT !.m.geo.points = getPreviewPoints(W.h, W.m, point)],
                       me, point,
                       [W.h EXCEPT !.points = getPreviewPoints(W.h, W.m, point)])

\* mouseMove of an armed session: point is getPointForEvent(me).
\* getPreviewPoints dereferences the geometry without a test
\* (geometry.points): a TypeError when the edge has none
movePoint(W, me, point) ==
    IF W.h.isLabel
    THEN [W EXCEPT !.h.label = Some(point), !.out.consumed = TRUE]
    ELSE IF ~W.m.hasGeometry THEN raise(W)
    ELSE previewPoints(W, me, point,
                       [W.h EXCEPT !.points = getPreviewPoints(W.h, W.m, point)])

\* mxEdgeHandler.prototype.mouseMove
mouseMove(W, me) ==
    IF W.h.index # NoIndex /\ W.h.marker.present
    THEN movePoint(W, me, getPointForEvent(W.m, me))
    ELSE W

\* The branch of mouseUp that turns the dragged end into a terminal point:
\* the last (or first) of this.abspoints is converted in place; while
\* this.abspoints is the copy redraw made of the state's array (aliased), the
\* point is the state's own
danglingUp(W) ==
    LET k == IF W.h.isSource THEN 1 ELSE Len(W.h.abspoints)
        p == W.h.abspoints[k]
        pt == Pt(ExactDiv(p.x, config.scale) - config.tr.x - pstateOrigin.x
                     - ExactDiv(panDx, config.scale),
                 ExactDiv(p.y, config.scale) - config.tr.y - pstateOrigin.y
                     - ExactDiv(panDy, config.scale))
        W1 == [W EXCEPT !.h.abspoints[k] = pt,
                        !.v.absolutePoints = IF W.h.aliased THEN [@ EXCEPT ![k] = pt] ELSE @,
                        !.out.inPlace = W.h.aliased]
    IN  changeTerminalPoint(W1, pt, W.h.isSource)

\* The commit step that does not look at the validation error
commitUp_ignoresError(W, me) ==
    LET h == W.h
        focus == IF h.constraintHandler.currentConstraint # Null
                 THEN h.constraintHandler.currentFocus ELSE Null
        terminal == IF focus # Null THEN focus ELSE h.marker.validState
    IN  IF h.isLabel
        THEN [W |-> moveLabel(W, Val(h.label).x, Val(h.label).y), edge |-> EdgeCell]
        ELSE IF h.isSource \/ h.isTarget
        THEN IF terminal # Null
             THEN connect(W, EdgeCell, terminal, h.isSource, me.clone /\ config.cloneable)
             ELSE IF config.allowDanglingEdges
             THEN [W |-> danglingUp(W), edge |-> EdgeCell]
             ELSE [W |-> W, edge |-> EdgeCell]
        ELSE IF h.active
        THEN [W |-> changePoints(W, h.points), edge |-> EdgeCell]
        ELSE [W |-> [W EXCEPT !.v = validate(W.m), !.out.revalidated = TRUE], edge |-> EdgeCell]

\* The commit step that commits the previewed waypoints before it looks at
\* the kind of the session
commitUp_pointsFirst(W, me) ==
    LET h == W.h
        focus == IF h.constraintHandler.currentConstraint # Null
                 THEN h.constraintHandler.currentFocus ELSE Null
        terminal == IF focus # Null THEN focus ELSE h.marker.validState
    IN  IF h.error # Null
        THEN [W |-> [W EXCEPT !.out.alert = IF h.error # "" THEN h.error ELSE Null],
              edge |-> EdgeCell]
        ELSE IF h.active
        THEN [W |-> changePoints(W, h.points), edge |-> EdgeCell]
        ELSE IF h.isLabel
        THEN [W |-> moveLabel(W, Val(h.label).x, Val(h.label).y), edge |-> EdgeCell]
        ELSE IF h.isSource \/ h.isTarget
        THEN IF terminal # Null
             THEN connect(W, EdgeCell, terminal, h.isSource, me.clone /\ config.cloneable)
             ELSE IF config.allowDanglingEdges
             THEN [W |-> danglingUp(W), edge |-> EdgeCell]
             ELSE [W |-> W, edge |-> EdgeCell]
        ELSE [W |-> [W EXCEPT !.v = validate(W.m), !.out.revalidated = TRUE], edge |-> EdgeCell]

\* The commit step of mouseUp: [W, edge]
commitUp(W, me) ==
    LET h == W.h
        focus == IF h.constraintHandler.currentConstraint # Null
                 THEN h.constraintHandler.currentFocus ELSE Null
        terminal == IF focus # Null THEN focus ELSE h.marker.validState
    IN  IF h.error # Null
        THEN [W |-> [W EXCEPT !.out.alert = IF h.error # "" THEN h.error ELSE Null],
              edge |-> EdgeCell]
        ELSE IF h.isLabel
        THEN [W |-> moveLabel(W, Val(h.label).x, Val(h.label).y), edge |-> EdgeCell]
        ELSE IF h.isSource \/ h.isTarget
        THEN IF terminal # Null
             THEN connect(W, EdgeCell, terminal, h.isSource, me.clone /\ config.cloneable)
             ELSE IF config.allowDanglingEdges
             THEN [W |-> danglingUp(W), edge |-> EdgeCell]
             ELSE [W |-> W, edge |-> EdgeCell]
        ELSE IF h.active
        THEN [W |-> changePoints(W, h.points), edge |-> EdgeCell]
        ELSE [W |-> [W EXCEPT !.v = validate(W.m), !.out.revalidated = TRUE], edge |-> EdgeCell]

\* What follows reset in mouseUp, unless reset (its redraw) has raised an
\* error: the selection is set to a cloned edge and the event is consumed
afterReset(R, edge) ==
    IF R.out.threw THEN R
    ELSE [R EXCEPT !.m.selection = IF edge # EdgeCell THEN edge ELSE @,
                   !.out.consumed = TRUE]

\* The end of mouseUp: c is [W, edge], the world after the commit step and the
\* edge that was changed.  An error raised by the model has left the function
\* before.
finishUp(c) ==
    IF c.W.out.threw THEN c.W
    ELSE IF c.W.h.marker.present
    THEN afterReset(reset(c.W), c.edge)
    ELSE [c.W EXCEPT !.out.consumed = TRUE]

\* mouseUp without the test that the pointer has left the anchor
mouseUp_commitsUnmoved(W, me) ==
    IF W.h.index # NoIndex /\ W.h.marker.present
    THEN finishUp(commitUp(W, me))
    ELSE W

\* mxEdgeHandler.prototype.mouseUp
mouseUp(W, me) ==
    IF W.h.index # NoIndex /\ W.h.marker.present
    THEN finishUp(IF me.x # W.h.startX \/ me.y # W.h.startY
                  THEN commitUp(W, me)
                  ELSE [W |-> W, edge |-> EdgeCell])
    ELSE W

----------------------------------------------------------------------------
(* Settings and initial states *)

\* The defaults of mxGraph and mxEdgeHandler, except that edge labels are
\* movable and the edge has a label
baseConfig ==
    [scale |-> 1, tr |-> Pt(0, 0), gridEnabled |-> FALSE,
     addEnabled |-> FALSE, removeEnabled |-> FALSE,
     allowDanglingEdges |-> TRUE, resetEdgesOnConnect |-> FALSE,
     cloneable |-> TRUE, hasLabel |-> TRUE, labelMovable |-> TRUE,
     bendable |-> TRUE, snapToTerminals |-> FALSE,
     disconnectable |-> TRUE, terminalPointMovable |-> TRUE,
     graphEnabled |-> TRUE]

geometry0(points, targetPoint) ==
    [points |-> points, x |-> 0, y |-> 0, offset |-> Pt(0, 0),
     sourcePoint |-> None, targetPoint |-> targetPoint]

\* The model when the handler is constructed: the edge runs from A to the
\* target, or to a terminal point when the target is null; hasGeometry tells
\* whether model.getGeometry(edge) is not null (geo is what it was last)
model0(points, target) ==
    [geo |-> geometry0(points, IF target = Null THEN Some(Pt(50, 10)) ELSE None),
     hasGeometry |-> TRUE, source |-> "A", target |-> target,
     clones |-> <<>>, selection |-> EdgeCell, updateLevel |-> 0]

\* The waypoint lists an edge starts with
InitialPoints == {None, Some(<<>>), Some(<<Pt(30, 20)>>)}

\* The settings and models the behaviours start from
Scenarios ==
    \* reconnecting and cloning an edge whose ends may not dangle
    { [config |-> [baseConfig EXCEPT !.bendable = FALSE, !.hasLabel = FALSE,
                                     !.allowDanglingEdges = FALSE],
       model |-> model0(Some(<<Pt(30, 20)>>), "B")] }
    \cup
    \* dragging the ends of an edge, which may dangle
    { [config |-> [baseConfig EXCEPT !.bendable = FALSE, !.hasLabel = FALSE,
                                     !.cloneable = FALSE],
       model |-> model0(None, target)] : target \in {"B", Null} }
    \cup
    \* waypoints and the label at scale 2 with a translate, locked ends
    { [config |-> [baseConfig EXCEPT !.scale = 2, !.tr = Pt(1, 0), !.cloneable = FALSE,
                                     !.disconnectable = FALSE,
                                     !.terminalPointMovable = FALSE],
       model |-> model0(points, "B")] : points \in InitialPoints }
    \cup
    \* adding and removing waypoints on a translated grid, locked ends
    { [config |-> [baseConfig EXCEPT !.addEnabled = TRUE, !.removeEnabled = TRUE,
                                     !.gridEnabled = TRUE, !.tr = Pt(3, 0),
                                     !.cloneable = FALSE, !.hasLabel = FALSE,
                                     !.disconnectable = FALSE],
       model |-> model0(points, "B")] : points \in InitialPoints }
    \cup
    \* no dangling edges, waypoints dropped on reconnect, grid on
    { [config |-> [baseConfig EXCEPT !.allowDanglingEdges = FALSE,
                                     !.resetEdgesOnConnect = TRUE,
                                     !.gridEnabled = TRUE, !.cloneable = FALSE,
                                     !.hasLabel = FALSE],
       model |-> model0(Some(<<Pt(30, 20)>>), "B")] }
    \cup
    \* removing waypoints of a labelled edge, locked ends
    { [config |-> [baseConfig EXCEPT !.removeEnabled = TRUE, !.cloneable = FALSE,
                                     !.disconnectable = FALSE],
       model |-> model0(Some(<<Pt(30, 20)>>), "B")] }
    \cup
    \* a disabled graph with adding and removing waypoints switched on
    { [config |-> [baseConfig EXCEPT !.graphEnabled = FALSE, !.addEnabled = TRUE,
                                     !.removeEnabled = TRUE, !.cloneable = FALSE],
       model |-> model0(Some(<<Pt(30, 20)>>), "B")] }

Out0 ==
    [op |-> "none", ops |-> 0, alert |-> Null, begins |-> 0, ends |-> 0,
     threw |-> FALSE, fail |-> FALSE, rebuilt |-> FALSE, consumed |-> FALSE,
     started |-> FALSE, revalidated |-> FALSE, clone |-> FALSE,
     terminal |-> Null, at |-> -1, conv |-> None, bare |-> FALSE,
     inPlace |-> FALSE, constraint |-> Null]

\* The fields of a handler before init has run
handler0 ==
    [index |-> NoIndex, startX |-> 0, startY |-> 0,
     isSource |-> FALSE, isTarget |-> FALSE, isLabel |-> FALSE,
     active |-> FALSE, error |-> Null,
     points |-> None, abspoints |-> <<>>, aliased |-> FALSE, label |-> None,
     bends |-> None,
     labelShape |-> [present |-> FALSE, visible |-> FALSE, x |-> 0, y |-> 0],
     marker |-> [present |-> FALSE, validState |-> Null, markedState |-> Null],
     constraintHandler |-> [present |-> FALSE, currentFocus |-> Null,
                            currentConstraint |-> Null],
     shape |-> [present |-> FALSE, stroke |-> EDGE_SELECTION_COLOR]]

World(h, m, v) == [h |-> h, m |-> m, v |-> v, out |-> Out0]

\* No pointer-down is being followed
down0 == [miss |-> FALSE, blocked |-> FALSE, handle |-> NoIndex]

\* The history kept of the last callback that did anything: the event, what
\* the callback did (out) and what held when it was called
last0 ==
    [ev |-> "init", out |-> Out0, armed |-> FALSE, active |-> FALSE,
     moved |-> FALSE, adds |-> FALSE, removes |-> FALSE, roundTrip |-> FALSE,
     error |-> Null, pos |-> None, prePoints |-> None, conv |-> None,
     gSource |-> Null, gTarget |-> Null, locked |-> FALSE,
     n |-> 0, kind |-> "init",
     down |-> down0]

\* The state after new mxEdgeHandler(state)
Init ==
    /\ \E sc \in Scenarios : config = sc.config /\ model = sc.model
    /\ view = validate(model)
    /\ handler = init(World(handler0, model, view)).h
    /\ pressed = FALSE
    /\ last = last0

----------------------------------------------------------------------------
(* Pointer events *)

\* Screen positions of pointer events away from the handles
FreePoints == {Pt(60, 40), Pt(68, 52)}

\* The positions a pointer-down is tried at: on each handle and away from them
DownPoints ==
    FreePoints
    \cup {handler.abspoints[i] : i \in 1..Len(handler.abspoints)}
    \cup (IF IsSome(handler.label) THEN {Val(handler.label)} ELSE {})

\* Whether the pointer is inside the shape
inside(exists, shape, size, p) ==
    /\ exists
    /\ shape.visible
    /\ shape.x <= p.x /\ p.x < shape.x + size
    /\ shape.y <= p.y /\ p.y < shape.y + size

\* The handle shape the browser delivers an event at p to: the topmost, which
\* is the label handle, then the handle created last
RECURSIVE topBend(_, _, _)
topBend(bends, i, p) ==
    IF i = 0 THEN -1
    ELSE IF inside(bends[i].live, bends[i], HANDLE_SIZE, p) THEN i - 1
    ELSE topBend(bends, i - 1, p)

domSource(h, p) ==
    IF inside(h.labelShape.present, h.labelShape, LABEL_HANDLE_SIZE, p)
    THEN [src |-> "label", srcIndex |-> -1]
    ELSE LET i == IF IsSome(h.bends) THEN topBend(Val(h.bends), Len(Val(h.bends)), p) ELSE -1
         IN  IF i >= 0 THEN [src |-> "bend", srcIndex |-> i]
             ELSE [src |-> "none", srcIndex |-> -1]

\* The sources an event at p can have: the shape under the pointer or the
\* label text of the edge
Sources(h, p) ==
    {domSource(h, p)} \cup (IF config.hasLabel THEN {[src |-> "text", srcIndex |-> -1]} ELSE {})

\* The modifiers and kinds of a pointer-down
DownKinds ==
    { [shift |-> FALSE, consumed |-> FALSE, mouse |-> TRUE],
      [shift |-> TRUE, consumed |-> FALSE, mouse |-> TRUE],
      [shift |-> FALSE, consumed |-> TRUE, mouse |-> TRUE],
      [shift |-> TRUE, consumed |-> TRUE, mouse |-> TRUE],
      [shift |-> FALSE, consumed |-> FALSE, mouse |-> FALSE] }

\* The pointer-down events
DownEvents ==
    UNION { { [x |-> p.x, y |-> p.y, shift |-> k.shift, alt |-> FALSE,
               consumed |-> k.consumed, mouse |-> k.mouse,
               src |-> s.src, srcIndex |-> s.srcIndex]
              : k \in DownKinds, s \in Sources(handler, p) }
            : p \in DownPoints }

\* What a pointer-move finds: the cell the marker finds under the pointer and
\* the focus and constraint of the constraint handler
Targets ==
    { [cell |-> Null, focus |-> Null, constraint |-> Null],
      [cell |-> "B", focus |-> Null, constraint |-> Null],
      [cell |-> "C", focus |-> Null, constraint |-> Null],
      [cell |-> "X", focus |-> Null, constraint |-> Null],
      [cell |-> "C", focus |-> "C", constraint |-> Null],
      [cell |-> Null, focus |-> "C", constraint |-> "c"],
      [cell |-> "X", focus |-> "C", constraint |-> "c"] }

\* The pointer-move events
MoveEvents ==
    { [x |-> p.x, y |-> p.y, alt |-> alt, cell |-> t.cell,
       focus |-> t.focus, constraint |-> t.constraint]
      : p \in FreePoints, alt \in {FALSE}, t \in Targets }

\* The pointer-up events: at the anchor or away from it, with or without the
\* clone modifier, the model raising an error or not
UpEvents ==
    { [x |-> p.x, y |-> p.y, clone |-> clone, fail |-> fail]
      : p \in {Pt(60, 40), Pt(handler.startX, handler.startY)},
        clone \in BOOLEAN, fail \in BOOLEAN }

\* Whether the pointer-down would add a waypoint
addsPoint(me) ==
    config.addEnabled /\ getHandleForEvent(handler, me) = NoIndex /\ isAddPointEvent(me)

pointCount == IF IsSome(model.geo.points) THEN Len(Val(model.geo.points)) ELSE 0

\* Whether the pointer-down asks for a waypoint to be removed
removesPoint(me) ==
    /\ config.removeEnabled /\ isRemovePointEvent(me)
    /\ getHandleForEvent(handler, me) # NoIndex
    /\ ~me.consumed /\ config.graphEnabled

\* Whether the pointer-down is handed to start for the handle of an end that
\* may not be moved: its terminal is there and may not be disconnected, or is
\* not there and the terminal point may not be moved
lockedEnd(me) ==
    LET handle == getHandleForEvent(handler, me)
        isSource == IsSome(handler.bends) /\ handle = 0
        isTarget == IsSome(handler.bends) /\ handle = Len(Val(handler.bends)) - 1
        terminal == getTerminal(model, EdgeCell, isSource)
    IN  /\ handle # NoIndex /\ ~me.consumed /\ config.graphEnabled
        /\ ~(config.removeEnabled /\ isRemovePointEvent(me))
        /\ isSource \/ isTarget
        /\ IF terminal = Null THEN ~config.terminalPointMovable
           ELSE ~config.disconnectable

\* Whether a session is armed
armed == handler.index # NoIndex /\ handler.marker.present

\* Whether a callback did anything: it consumed the event, ran a commit
\* operation, raised an error or changed the handler, the model or the view
effective(W) ==
    \/ W.out.consumed
    \/ W.out.op # "none"
    \/ W.out.threw
    \/ W.h # handler
    \/ W.m # model
    \/ W.v # view

\* An error the model raised reaches the application that hosts the graph;
\* what happens after that is not followed.
running == ~last.out.threw

\* What the pointer-down me was, kept until the pointer-up: whether it was
\* unrecognised (it resolved no handle and was no add-waypoint event),
\* whether it was blocked (already consumed, or the graph is disabled), and
\* the handle it resolved when it asked for a waypoint to be removed
downOf(me) ==
    [miss |-> getHandleForEvent(handler, me) = NoIndex /\ ~addsPoint(me),
     blocked |-> me.consumed \/ ~config.graphEnabled,
     handle |-> IF removesPoint(me) THEN getHandleForEvent(handler, me) ELSE NoIndex]

\* The step of a pointer-down me that left the world W.  last keeps the last
\* callback that did anything, and every pointer-down that asked for a
\* waypoint to be added or removed; locked tells, until the next pointer-down,
\* whether this one was on the handle of an end that may not be moved, and
\* down is kept of every pointer-down.
downLast(W, me, adds, removes, back) ==
    IF effective(W) \/ adds \/ removes
    THEN [last EXCEPT
           !.ev = "down", !.out = W.out,
           !.armed = armed, !.active = handler.active,
           !.moved = FALSE, !.error = Null,
           !.adds = adds, !.removes = removes, !.roundTrip = back,
           !.pos = IF adds \/ removes THEN Some(Pt(me.x, me.y)) ELSE None,
           !.prePoints = IF adds THEN Some(model.geo.points)
                         ELSE IF back THEN @ ELSE None,
           !.conv = None,
           !.gSource = IF W.out.started THEN model.source ELSE Null,
           !.gTarget = IF W.out.started THEN model.target ELSE Null,
           !.locked = lockedEnd(me),
           !.down = downOf(me)]
    ELSE [last EXCEPT !.locked = FALSE, !.down = downOf(me)]

DownStep(W, me, adds, removes, back) ==
    /\ handler' = W.h
    /\ model' = W.m
    /\ view' = W.v
    /\ last' = downLast(W, me, adds, removes, back)

\* The button is pressed and the pointer-down is delivered to mouseDown
MouseDown ==
    \E me \in DownEvents :
        /\ running /\ ~pressed
        /\ pressed' = TRUE
        /\ addsPoint(me) => pointCount < MaxPoints
        /\ DownStep(mouseDown(World(handler, model, view), me), me,
                    addsPoint(me), removesPoint(me),
                    /\ removesPoint(me)
                    /\ last.ev = "down" /\ last.adds /\ last.pos = Some(Pt(me.x, me.y)))
        /\ UNCHANGED config

\* The step of a pointer-move that left the world W
moveLast(W) ==
    IF effective(W)
    THEN [last EXCEPT
           !.ev = "move", !.out = W.out,
           !.armed = armed, !.active = handler.active,
           !.moved = FALSE, !.error = Null,
           !.adds = FALSE, !.removes = FALSE, !.roundTrip = FALSE,
           !.pos = None, !.prePoints = None,
           !.conv = W.out.conv]
    ELSE last

MoveStep(W) ==
    /\ handler' = W.h
    /\ model' = W.m
    /\ view' = W.v
    /\ last' = moveLast(W)

\* The pointer moves, the button up or down, and the pointer-move is delivered
\* to mouseMove
MouseMove ==
    \E me \in MoveEvents :
        /\ running
        /\ UNCHANGED pressed
        /\ MoveStep(mouseMove(World(handler, model, view), me))
        /\ UNCHANGED config

\* The step of a pointer-up me that left the world W.  last keeps every
\* pointer-up that found a session armed.
upLast(W, me) ==
    IF effective(W) \/ armed
    THEN [last EXCEPT
           !.ev = "up", !.out = W.out,
           !.armed = armed, !.active = handler.active,
           !.moved = me.x # handler.startX \/ me.y # handler.startY,
           !.error = handler.error,
           !.adds = FALSE, !.removes = FALSE, !.roundTrip = FALSE,
           !.pos = None, !.prePoints = None,
           !.down = down0]
    ELSE [last EXCEPT !.down = down0]

UpStep(W, me) ==
    /\ handler' = W.h
    /\ model' = W.m
    /\ view' = W.v
    /\ last' = upLast(W, me)

\* The button is released and the pointer-up is delivered to mouseUp
MouseUp ==
    \E me \in UpEvents :
        /\ running /\ pressed
        /\ pressed' = FALSE
        /\ me.clone /\ config.cloneable => Len(model.clones) < MaxClones
        /\ UpStep(mouseUp([World(handler, model, view) EXCEPT !.out.fail = me.fail], me), me)
        /\ UNCHANGED config

Next == MouseDown \/ MouseMove \/ MouseUp

Spec == Init /\ [][Next]_vars

----------------------------------------------------------------------------
(* The callbacks in any order: a pointer-down may arrive while a session is
   armed (the pointer-up was lost, or went to another listener), a pointer-up
   without a pointer-down, and destroy at any time *)

ScenariosFree ==
    \* a waypoint and the label at scale 2, locked ends
    { [config |-> [baseConfig EXCEPT !.scale = 2, !.tr = Pt(1, 0), !.cloneable = FALSE,
                                     !.disconnectable = FALSE,
                                     !.terminalPointMovable = FALSE],
       model |-> model0(Some(<<Pt(30, 20)>>), "B")] }
    \cup
    \* the ends of an edge, which may dangle, at scale 2 with a translate
    { [config |-> [baseConfig EXCEPT !.scale = 2, !.tr = Pt(1, 0),
                                     !.bendable = FALSE, !.hasLabel = FALSE,
                                     !.cloneable = FALSE],
       model |-> model0(None, "B")] }

InitFree ==
    /\ \E sc \in ScenariosFree : config = sc.config /\ model = sc.model
    /\ view = validate(model)
    /\ handler = init(World(handler0, model, view)).h
    /\ pressed = FALSE
    /\ last = last0

\* Whether another callback is followed
counting == running /\ last.n < MaxEvents

\* The step of a callback of the given kind that left the world W and the
\* history l; n counts the callbacks and kind is the last of them, whether it
\* did anything or not
FreeStep(W, l, kind) ==
    /\ handler' = W.h
    /\ model' = W.m
    /\ view' = W.v
    /\ last' = [l EXCEPT !.n = @ + 1, !.kind = kind]

\* A pointer-down is delivered to mouseDown, whatever the button was
DownAnytime ==
    \E me \in DownEvents :
        /\ counting
        /\ pressed' = TRUE
        /\ addsPoint(me) => pointCount < MaxPoints
        /\ FreeStep(mouseDown(World(handler, model, view), me),
                    downLast(mouseDown(World(handler, model, view), me), me,
                             addsPoint(me), removesPoint(me), FALSE),
                    "down")
        /\ UNCHANGED config

\* A pointer-move is delivered to mouseMove
MoveAnytime ==
    \E me \in MoveEvents :
        /\ counting
        /\ FreeStep(mouseMove(World(handler, model, view), me),
                    moveLast(mouseMove(World(handler, model, view), me)),
                    "move")
        /\ UNCHANGED <<config, pressed>>

\* A pointer-up is delivered to mouseUp, whatever the button was
UpAnytime ==
    \E me \in UpEvents :
        /\ counting
        /\ pressed' = FALSE
        /\ me.clone /\ config.cloneable => Len(model.clones) < MaxClones
        /\ FreeStep(mouseUp([World(handler, model, view) EXCEPT !.out.fail = me.fail], me),
                    upLast(mouseUp([World(handler, model, view) EXCEPT !.out.fail = me.fail], me), me),
                    "up")
        /\ UNCHANGED config

\* The application calls destroy
Destroy ==
    /\ counting
    /\ handler' = destroy(World(handler, model, view)).h
    /\ last' = [last EXCEPT !.ev = "destroy", !.out = Out0, !.armed = armed,
                             !.active = handler.active, !.locked = FALSE,
                             !.n = @ + 1, !.kind = "destroy"]
    /\ UNCHANGED <<model, view, config, pressed>>

NextFree == DownAnytime \/ MoveAnytime \/ UpAnytime \/ Destroy

SpecFree == InitFree /\ [][NextFree]_vars

----------------------------------------------------------------------------
(* The callbacks in any order on an edge whose geometry the application has
   taken away (model.setGeometry(edge, null)) after the handler was built *)

\* The application sets the geometry of the edge to null; the state of the
\* edge in the view keeps the points it had
ClearGeometry ==
    /\ counting /\ model.hasGeometry
    /\ model' = [model EXCEPT !.hasGeometry = FALSE]
    /\ last' = [last EXCEPT !.ev = "clear", !.out = Out0, !.armed = armed,
                             !.active = handler.active, !.locked = FALSE,
                             !.n = @ + 1, !.kind = "clear"]
    /\ UNCHANGED <<handler, view, config, pressed>>

NextGone == DownAnytime \/ MoveAnytime \/ UpAnytime \/ ClearGeometry

SpecGone == InitFree /\ [][NextGone]_vars

----------------------------------------------------------------------------
(* Point conversion on its own: a screen point is converted the way addPoint
   does and the way a drag does, with the grid on *)

ConvScales == {1, 2}
ConvTranslates == {0, 3}

\* The event of the conversions: a pointer event at p without alt
eventAt(p) == [x |-> p.x, y |-> p.y, alt |-> FALSE]

InitConv ==
    /\ \E sc \in ConvScales, t \in ConvTranslates :
           config = [baseConfig EXCEPT !.scale = sc, !.tr = Pt(t, 0),
                                       !.gridEnabled = TRUE, !.hasLabel = FALSE]
    /\ model = model0(None, "B")
    /\ view = validate(model)
    /\ handler = init(World(handler0, model, view)).h
    /\ pressed = FALSE
    /\ \E x \in 0..MaxCoord, y \in 0..MaxCoord :
           last = [ev |-> "point", point |-> Pt(x, y), result |-> Pt(x, y)]

\* The conversion of addPoint: convertPoint with the grid of the event
ConvertAdded ==
    /\ last.ev = "point"
    /\ last' = [last EXCEPT
                 !.ev = "added",
                 !.result = convertPoint(last.point, isGridEnabledEvent(eventAt(last.point)))]
    /\ UNCHANGED <<handler, model, view, config, pressed>>

\* The conversion of a waypoint drag: getPointForEvent, then convertPoint
\* without the grid
ConvertDragged ==
    /\ last.ev = "point"
    /\ last' = [last EXCEPT
                 !.ev = "dragged",
                 !.result = convertPoint(getPointForEvent(model, eventAt(last.point)), FALSE)]
    /\ UNCHANGED <<handler, model, view, config, pressed>>

NextConv == ConvertAdded \/ ConvertDragged

SpecConv == InitConv /\ [][NextConv]_vars

----------------------------------------------------------------------------
(* Hit detection on its own: getHandleForEvent for a pointer-down at HitAt
   over handles that are absent, hidden, under the pointer, next to it or
   far from it *)

HitAt == Pt(10, 10)

\* The label handle: its centre is the pointer, or one to the right of it
HitLabels ==
    { [present |-> FALSE, visible |-> FALSE, x |-> 0, y |-> 0],
      [present |-> TRUE, visible |-> FALSE, x |-> 8, y |-> 8],
      [present |-> TRUE, visible |-> TRUE, x |-> 8, y |-> 8],
      [present |-> TRUE, visible |-> TRUE, x |-> 9, y |-> 8],
      [present |-> TRUE, visible |-> TRUE, x |-> 30, y |-> 30] }

\* An endpoint or waypoint handle: its centre is half a pixel off the
\* pointer to the right and below, or to the left and above
HitBends ==
    { [live |-> FALSE, visible |-> FALSE, x |-> 0, y |-> 0],
      [live |-> TRUE, visible |-> FALSE, x |-> 7, y |-> 7],
      [live |-> TRUE, visible |-> TRUE, x |-> 7, y |-> 7],
      [live |-> TRUE, visible |-> TRUE, x |-> 6, y |-> 6],
      [live |-> TRUE, visible |-> TRUE, x |-> 30, y |-> 30] }

\* The events: from the mouse or not, with any of the shapes as source
HitEvents ==
    { [x |-> HitAt.x, y |-> HitAt.y, mouse |-> mouse, src |-> s.src, srcIndex |-> s.srcIndex]
      : mouse \in BOOLEAN,
        s \in { [src |-> "none", srcIndex |-> -1], [src |-> "text", srcIndex |-> -1],
                [src |-> "label", srcIndex |-> -1] }
              \cup { [src |-> "bend", srcIndex |-> i] : i \in 0..2 } }

InitHit ==
    /\ config = baseConfig
    /\ model = model0(Some(<<Pt(30, 20)>>), "B")
    /\ view = validate(model)
    /\ \E l \in HitLabels, b0 \in HitBends, b1 \in HitBends, b2 \in HitBends :
           handler = [init(World(handler0, model, view)).h EXCEPT
                        !.labelShape = l, !.bends = Some(<<b0, b1, b2>>)]
    /\ pressed = FALSE
    /\ \E me \in HitEvents : last = [ev |-> "hit", me |-> me, result |-> NoIndex]

\* getHandleForEvent is called for the event
HitTest ==
    /\ last.ev = "hit"
    /\ last' = [last EXCEPT !.ev = "tested", !.result = getHandleForEvent(handler, last.me)]
    /\ UNCHANGED <<handler, model, view, config, pressed>>

NextHit == HitTest

SpecHit == InitHit /\ [][NextHit]_vars

----------------------------------------------------------------------------
(* Snapping on its own: getPointForEvent for a pointer position, with
   snapToTerminals on, while the source handle of an edge with one waypoint
   is dragged *)

InitSnap ==
    /\ \E grid \in BOOLEAN :
           config = [baseConfig EXCEPT !.snapToTerminals = TRUE, !.gridEnabled = grid,
                                       !.hasLabel = FALSE]
    /\ model = model0(Some(<<Pt(20, 20)>>), "B")
    /\ view = validate(model)
    /\ handler = start(init(World(handler0, model, view)).h, model, 10, 10, 0)
    /\ pressed = TRUE
    /\ \E x \in 0..MaxCoord, y \in 0..MaxCoord :
           last = [ev |-> "pointer", point |-> Pt(x, y), result |-> Pt(x, y)]

\* getPointForEvent is called for the pointer position
SnapPoint ==
    /\ last.ev = "pointer"
    /\ last' = [last EXCEPT !.ev = "snapped",
                            !.result = getPointForEvent(model, eventAt(last.point))]
    /\ UNCHANGED <<handler, model, view, config, pressed>>

NextSnap == SnapPoint

SpecSnap == InitSnap /\ [][NextSnap]_vars

----------------------------------------------------------------------------
(* Properties *)

\* The waypoints of a geometry's list, none when there is no list
pointsOf(points) == IF IsSome(points) THEN Val(points) ELSE <<>>

\* A step that delivers a pointer-down, a pointer-up
isDown == ~pressed /\ pressed'
isUp == pressed /\ ~pressed'

\* C1: a gesture whose pointer-up is at the anchor captured at pointer-down
\* runs no commit operation and leaves the geometry and the terminals of the
\* edge (the whole model) as they were, whatever handle was armed and whatever
\* was previewed in between.
C1_NoOpGesture ==
    [][(isUp /\ armed /\ ~last'.moved) => (last'.out.ops = 0 /\ model' = model)]_vars

\* A pointer-up at the anchor ended a session that had previewed a change
C1_Witness ==
    /\ last.ev = "up" /\ last.armed /\ ~last.moved
    /\ last.active
    /\ last.out.ops = 0

\* C2: when the drag of the interior waypoint handle with index i is committed
\* on pointer-up, the committed waypoint list has the converted point of the
\* last pointer-move at points[i-1], is as long as the list before the drag,
\* and has every other entry unchanged and in place.
C2_WaypointDrag ==
    [][(isUp /\ armed /\ last'.out.op = "changePoints" /\ ~last'.out.threw)
        => LET i == handler.index
               pre == model.geo.points
               post == model'.geo.points
           IN  /\ IsSome(pre) /\ IsSome(post) /\ IsSome(last.conv)
               /\ last.ev = "move"
               /\ i >= 1 /\ i <= Len(Val(pre))
               /\ Len(Val(post)) = Len(Val(pre))
               /\ Val(post)[i] = Val(last.conv)
               /\ \A j \in 1..Len(Val(pre)) : j # i => Val(post)[j] = Val(pre)[j]]_vars

\* The drag of one of two waypoints has been committed
C2_Witness ==
    /\ last.ev = "up" /\ last.out.op = "changePoints" /\ ~last.out.threw
    /\ IsSome(model.geo.points) /\ Len(Val(model.geo.points)) = 2
    /\ IsSome(last.conv)
    /\ \E i \in 1..2 : Val(model.geo.points)[i] = Val(last.conv)

\* The terminal a pointer-up resolves for the handler h: the focus of the
\* constraint handler when it has a constraint, the marker's valid state
\* otherwise
resolved(h) ==
    IF h.constraintHandler.currentConstraint # Null
       /\ h.constraintHandler.currentFocus # Null
    THEN h.constraintHandler.currentFocus
    ELSE h.marker.validState

\* C3: a reconnect committed with the clone flag adds a new edge to the model.
\* Its untouched end is attached to the terminal the original edge had there
\* when the gesture started, its dragged end to the resolved terminal; the
\* original edge keeps its terminals and its geometry; the new edge is what
\* the reconnect returns, and the selection is set to it.
C3_CloneReconnect ==
    [][(isUp /\ armed /\ last'.out.op = "connect" /\ last'.out.clone /\ ~last'.out.threw)
        => LET n == Len(model'.clones)
               new == model'.clones[n]
           IN  /\ n = Len(model.clones) + 1
               /\ SubSeq(model'.clones, 1, n - 1) = model.clones
               /\ resolved(handler) # Null
               /\ IF handler.isSource
                  THEN new.source = resolved(handler) /\ new.target = last.gTarget
                  ELSE new.target = resolved(handler) /\ new.source = last.gSource
               /\ model'.source = model.source /\ model'.source = last.gSource
               /\ model'.target = model.target /\ model'.target = last.gTarget
               /\ model'.geo = model.geo
               /\ model'.selection = n]_vars

\* A reconnect with the clone flag has been committed
C3_Witness ==
    /\ last.ev = "up" /\ last.out.op = "connect" /\ last.out.clone /\ ~last.out.threw
    /\ Len(model.clones) = 1
    /\ model.clones[1].source = "C" /\ model.clones[1].target = "B"
    /\ model.selection = 1

\* Whether the logical coordinate c is a multiple of the grid size, or a
\* multiple of the grid size plus or minus the translate t
onGrid(c, t) ==
    \/ c % gridSize = 0
    \/ (c - t) % gridSize = 0
    \/ (c + t) % gridSize = 0

\* C4: with the grid on, for every screen point, scale and translate, the
\* logical point a conversion gives (convertPoint with the grid for an added
\* waypoint, getPointForEvent and convertPoint for a dragged one) is a
\* multiple of the grid size plus the translate, and it is what snapping
\* the point converted without the grid gives.
C4_GridSnapping ==
    last.ev \in {"added", "dragged"}
        => LET plain == convertPoint(last.point, FALSE)
           IN  /\ onGrid(last.result.x, config.tr.x)
               /\ onGrid(last.result.y, config.tr.y)
               /\ last.result = Pt(snap(plain.x, 1), snap(plain.y, 1))

\* C11: in every sequence of pointer events, once a pointer-down has hit the
\* handle of an end that may not be moved, no later event of that gesture (no
\* event before the next pointer-down) reconnects the end, changes its
\* terminal point or changes the model in any other way.
C11_LockedEndNoEffect ==
    [][(last.locked /\ last'.locked) => model' = model]_vars

\* C12: in every reachable state the one session the handler has is
\* consistent: whenever a handle index is armed, isSource holds exactly when
\* the index is 0, isTarget exactly when it is the last handle index and
\* isLabel exactly when it is the label sentinel, also after a pointer-down
\* that arrives while a session is armed.
C12_SessionConsistent ==
    (armed /\ IsSome(handler.bends))
        => /\ handler.isSource <=> handler.index = 0
           /\ handler.isTarget <=> handler.index = Len(Val(handler.bends)) - 1
           /\ handler.isLabel <=> handler.index = LABEL_HANDLE

\* C13: every change a commit operation (reconnect, change terminal point,
\* change waypoints, move label, add waypoint, remove waypoint) makes to the
\* model is made while a transaction the operation opened is in progress,
\* between its beginUpdate and its endUpdate, and a gesture has one
\* transaction.
C13_MutationsBracketed ==
    (last.out.ops > 0 /\ ~last.out.threw)
        => /\ ~last.out.bare
           /\ last.out.begins = 1 /\ last.out.ends = 1

\* C14: every beginUpdate of the handler is followed by exactly one endUpdate
\* on every way out of the operation, also when a change inside the bracket
\* raises an error: after every callback the model's nesting depth is what it
\* was before (0), and the callback has ended as many updates as it began.
C14_UpdatesBalanced ==
    /\ model.updateLevel = 0
    /\ last.out.begins = last.out.ends

\* A change inside the bracket of a pointer-up has raised an error
C14_Witness ==
    /\ last.ev = "up" /\ last.out.threw
    /\ last.out.op \in {"connect", "changeTerminalPoint"}
    /\ last.out.begins = 1 /\ last.out.ends = 1
    /\ model.updateLevel = 0

\* Whether the handler h holds none of the references destroy clears
Destroyed(h) ==
    /\ ~h.marker.present /\ ~h.shape.present /\ ~h.labelShape.present
    /\ ~h.constraintHandler.present /\ h.bends = None

\* C15: destroy may be called in any state, also while a session is armed or
\* dragging.  After it the marker, the preview shape, the label handle, the
\* constraint handler and the handles are absent; a pointer-move, a
\* pointer-up and another destroy delivered to the destroyed handler change
\* neither the handler nor the model nor the view and raise no error.
C15_DestroySafe ==
    [][/\ last'.kind = "destroy" => Destroyed(handler')
       /\ (Destroyed(handler) /\ last'.kind \in {"move", "up", "destroy"})
              => (UNCHANGED <<handler, model, view>> /\ ~last'.out.threw)]_vars

\* A handler destroyed in the middle of a drag has been given a pointer-up
C15_Witness ==
    /\ last.ev = "destroy" /\ last.armed /\ last.active
    /\ last.kind = "up"
    /\ Destroyed(handler) /\ handler.index # NoIndex

\* C16: on a pointer-up with movement while the validation error is present
\* (empty or not) no commit operation runs and the model and the selection
\* are unchanged; the user is alerted, with the error, exactly when the
\* pointer has moved and the error is a non-empty string, and never on a
\* pointer-up without movement.
C16_ErrorBlocksCommit ==
    [][(isUp /\ armed)
        => /\ (last'.moved /\ handler.error # Null)
                  => (last'.out.ops = 0 /\ model' = model)
           /\ last'.out.alert # Null
                  <=> (last'.moved /\ handler.error # Null /\ handler.error # "")
           /\ last'.out.alert # Null => last'.out.alert = handler.error]_vars

\* A pointer-up with movement has alerted the user of the error of vertex X
C16_Witness ==
    /\ last.ev = "up" /\ last.armed /\ last.moved
    /\ last.error = "msg" /\ last.out.alert = "msg"
    /\ last.out.ops = 0

\* C17: in no sequence of pointer events does the handler rewrite in place a
\* point of the committed state of the edge (its absolute points, its label
\* offset), also not on a pointer-up that follows a pointer-down with no
\* pointer-move in between.
C17_StateNotRewritten ==
    ~last.out.inPlace

\* A step that delivers a pointer-move (or changes nothing)
isMove == pressed' = pressed

\* C18: a pointer-move in an armed session, whatever the handle, leaves the
\* committed geometry of the edge (waypoints, label anchor and offset,
\* terminal points) and its terminals as they are, and the committed state of
\* the view with them; only the working copy and the preview of the session
\* change before the pointer-up.
C18_MovesKeepGeometry ==
    [][isMove => (model' = model /\ view' = view)]_vars

\* The preview of a waypoint drag differs from the committed waypoints
C18_Witness ==
    /\ last.ev = "move" /\ armed /\ handler.active
    /\ ~handler.isSource /\ ~handler.isTarget
    /\ IsSome(model.geo.points) /\ Len(Val(model.geo.points)) > 0
    /\ handler.points # model.geo.points
    /\ handler.abspoints # view.absolutePoints

\* The handles of h by index: the label handle is LABEL_HANDLE, which is
\* checked first, the others follow in index order
handleIndices(h) ==
    {LABEL_HANDLE} \cup (IF IsSome(h.bends) THEN 0..(Len(Val(h.bends)) - 1) ELSE {})

\* Whether the handle k of h qualifies for the event: it is there, is not
\* hidden, and is the event source or intersects the tolerance rectangle
qualifies(h, me, k) ==
    LET tol == IF me.mouse THEN 1 ELSE tolerance
        hit == [x |-> me.x - tol, y |-> me.y - tol, width |-> 2 * tol, height |-> 2 * tol]
    IN  IF k = LABEL_HANDLE
        THEN /\ h.labelShape.present /\ h.labelShape.visible
             /\ \/ me.src = "label"
                \/ tol > 0 /\ intersects(boundsOf(h.labelShape, LABEL_HANDLE_SIZE), hit)
        ELSE /\ Val(h.bends)[k + 1].live /\ Val(h.bends)[k + 1].visible
             /\ \/ me.src = "bend" /\ me.srcIndex = k
                \/ tol > 0 /\ intersects(boundsOf(Val(h.bends)[k + 1], HANDLE_SIZE), hit)

\* Four times the squared distance of the pointer to the centre of handle k
centreDistSq(h, me, k) ==
    LET shape == IF k = LABEL_HANDLE THEN h.labelShape ELSE Val(h.bends)[k + 1]
        size == IF k = LABEL_HANDLE THEN LABEL_HANDLE_SIZE ELSE HANDLE_SIZE
        dx == 2 * me.x - (2 * shape.x + size)
        dy == 2 * me.y - (2 * shape.y + size)
    IN  dx * dx + dy * dy

\* The handle of Q nearest to the pointer, the later checked of two that are
\* equally near; NoIndex when Q is empty
nearest(h, me, Q) ==
    IF Q = {} THEN NoIndex
    ELSE CHOOSE k \in Q :
             \A j \in Q : \/ centreDistSq(h, me, k) < centreDistSq(h, me, j)
                          \/ centreDistSq(h, me, k) = centreDistSq(h, me, j) /\ k >= j

\* C19 as stated: hit-testing returns the nearest of the handles that
\* qualify, a tie going to the one checked later, and none when no handle
\* qualifies; it never returns a hidden handle.
C19_NearestQualifying ==
    last.ev = "tested"
        => last.result = nearest(handler, last.me,
                                 {k \in handleIndices(handler) : qualifies(handler, last.me, k)})

\* C19: hit-testing returns the nearest of the handles that qualify, a tie
\* going to the one checked later, and none when no handle qualifies, unless
\* the source of the event is the label text of the edge: then only the
\* endpoint and waypoint handles are looked at, and the label sentinel is
\* returned when none of them qualifies, whether the label handle is hidden
\* or not.
C19_HitTest ==
    last.ev = "tested"
        => IF last.me.src = "text"
           THEN LET Q == {k \in handleIndices(handler) \ {LABEL_HANDLE} :
                             qualifies(handler, last.me, k)}
                IN  last.result = IF Q = {} THEN LABEL_HANDLE
                                  ELSE nearest(handler, last.me, Q)
           ELSE last.result = nearest(handler, last.me,
                                      {k \in handleIndices(handler) :
                                          qualifies(handler, last.me, k)})

\* The label text was the source, the label handle is hidden and the label
\* sentinel was returned
C19_Witness ==
    /\ last.ev = "tested" /\ last.me.src = "text"
    /\ handler.labelShape.present /\ ~handler.labelShape.visible
    /\ last.result = LABEL_HANDLE

\* The interior indices of h at which a live handle exists
liveInterior(h) ==
    {i \in 1..(Len(Val(h.bends)) - 2) : Val(h.bends)[i + 1].live}

\* C20: in every reachable idle state of a bendable edge the live interior
\* handles correspond one to one to the waypoints of the geometry: a live
\* handle with interior index i exists exactly when points[i-1] exists, also
\* after the waypoint list has shrunk without the handler being rebuilt.
C20_HandlesMatchPoints ==
    (handler.index = NoIndex /\ handler.marker.present /\ config.bendable
     /\ IsSome(handler.bends))
        => liveInterior(handler) = 1..pointCount

\* C21: each pointer-up with movement in an armed session runs at most one
\* commit operation, chosen in this order: none when a validation error is
\* present; else moveLabel for a label session; else, for an endpoint session,
\* connect when a terminal resolves, changeTerminalPoint when none resolves
\* and dangling edges are allowed, none when they are not; else changePoints
\* with the previewed list for an interior session that has previewed; else
\* only a revalidation of the edge, which leaves the model as it is.
C21_OneCommitByPriority ==
    [][(isUp /\ armed /\ last'.moved)
        => /\ last'.out.op =
                  IF handler.error # Null THEN "none"
                  ELSE IF handler.isLabel THEN "moveLabel"
                  ELSE IF handler.isSource \/ handler.isTarget
                  THEN (IF resolved(handler) # Null THEN "connect"
                        ELSE IF config.allowDanglingEdges THEN "changeTerminalPoint"
                        ELSE "none")
                  ELSE IF handler.active THEN "changePoints"
                  ELSE "none"
           /\ last'.out.ops = IF last'.out.op = "none" THEN 0 ELSE 1
           /\ (last'.out.op = "changePoints" /\ ~last'.out.threw)
                  => model'.geo = [model.geo EXCEPT !.points = handler.points]
           /\ last'.out.revalidated
                  <=> /\ handler.error = Null /\ ~handler.isLabel
                      /\ ~handler.isSource /\ ~handler.isTarget /\ ~handler.active
           /\ last'.out.ops = 0 => model' = model]_vars

\* A waypoint handle was pressed and released elsewhere with no pointer-move
\* in between: the edge was revalidated and nothing was committed
C21_Witness ==
    /\ last.ev = "up" /\ last.armed /\ last.moved
    /\ ~last.active /\ last.error = Null
    /\ last.out.revalidated
    /\ last.out.ops = 0

\* C22: a pointer-up that ends an endpoint drag with no terminal resolved and
\* dangling edges allowed commits the change of the terminal point and then
\* tears the handler down and builds it anew (destroy, then init), as adding
\* and removing a waypoint do.
C22_DanglingRebuilds ==
    (last.ev = "up" /\ last.out.op = "changeTerminalPoint" /\ ~last.out.threw)
        => last.out.rebuilt

\* C23: at the pointer-up of an endpoint drag the terminal handed to connect
\* is the cell of the constraint handler's current focus whenever the
\* constraint handler has both a current constraint and a current focus, and
\* the cell of the marker's valid state only when it has not; connect hands
\* the current constraint of the constraint handler to the graph, or a default
\* constraint when there is none, and the dragged end is attached to that
\* terminal.
C23_ReconnectTerminal ==
    [][(isUp /\ armed /\ last'.out.op = "connect")
        => LET ch == handler.constraintHandler
               both == ch.currentConstraint # Null /\ ch.currentFocus # Null
               edge == IF last'.out.clone THEN Len(model'.clones) ELSE EdgeCell
           IN  /\ handler.isSource \/ handler.isTarget
               /\ last'.out.terminal # Null
               /\ last'.out.terminal = IF both THEN ch.currentFocus
                                       ELSE handler.marker.validState
               /\ last'.out.constraint = IF ch.currentConstraint # Null
                                         THEN ch.currentConstraint ELSE "default"
               /\ ~last'.out.threw
                      => getTerminal(model', edge, handler.isSource) = last'.out.terminal]_vars

\* An end was dropped on a connection point of vertex C, with nothing under
\* the pointer for the marker: the end is attached to C with that constraint
C23_Witness ==
    /\ last.ev = "up" /\ last.out.op = "connect" /\ ~last.out.threw
    /\ last.out.terminal = "C" /\ last.out.constraint = "c"
    /\ "C" \in {model.source, model.target}

\* The coordinates the pointer may snap to on an axis, in the order they are
\* tried: the routing centres of the source and the target, then every
\* absolute point of the edge but the dragged one
snapTargets(isX) ==
    LET coord(p) == IF isX THEN p.x ELSE p.y
        others == {i \in 1..Len(handler.abspoints) : i - 1 # handler.index}
        ends == (IF model.source # Null THEN <<coord(getRoutingCenter(model.source))>> ELSE <<>>)
                \o (IF model.target # Null THEN <<coord(getRoutingCenter(model.target))>>
                    ELSE <<>>)
    IN  [ends |-> ends, others |-> {coord(handler.abspoints[i]) : i \in others}]

\* Whether the coordinate v is within the snap tolerance of c
withinTolerance(v, c) == 2 * Abs(v - c) < getSnapToTerminalTolerance2

\* C24: with snap-to-terminals on and a positive tolerance (half a grid cell
\* in the current scale) the pointer position snaps, on each axis by itself,
\* to the routing centre of each terminal and to every other absolute point
\* of the edge (every one but the dragged one) that is within the tolerance on
\* that axis; the first candidate that matches determines the axis, and an
\* axis that snapped is not snapped to the grid afterwards.
C24_SnapToWaypoints ==
    last.ev = "snapped"
        => \A isX \in BOOLEAN :
               LET v == IF isX THEN last.point.x ELSE last.point.y
                   r == IF isX THEN last.result.x ELSE last.result.y
                   tr == IF isX THEN config.tr.x ELSE config.tr.y
                   t == snapTargets(isX)
                   ends == {k \in 1..Len(t.ends) : withinTolerance(v, t.ends[k])}
                   near == {c \in t.others : withinTolerance(v, c)}
               IN  IF ends # {}
                   THEN r = t.ends[CHOOSE k \in ends : \A j \in ends : k <= j]
                   ELSE IF near # {} THEN r \in near
                   ELSE r = IF config.gridEnabled
                            THEN (snap(v - tr * config.scale, config.scale) + tr) * config.scale
                            ELSE v

C26_IdleIgnoresEvents ==
    [][(/\ handler.index = NoIndex
        /\ isMove \/ isUp \/ (isDown /\ last'.down.miss))
        => /\ UNCHANGED <<handler, model, view>>
           /\ handler'.index = NoIndex]_vars

\* The button is held after a pointer-down away from every handle, on an edge
\* that has a waypoint handle, and the handler is idle
C26_Witness ==
    /\ pressed /\ last.down.miss /\ ~last.down.blocked
    /\ handler.index = NoIndex /\ handler.marker.present
    /\ pointCount = 1 /\ config.bendable

\* C27: when the edge has no geometry every step of the handler that needs it
\* is a silent no-op: moveLabel, changeTerminalPoint, changePoints,
\* addPointAt and removePoint change nothing in the model, open no
\* transaction, do not rebuild the handler and raise no error, and the
\* previews of pointer-moves and the redraws raise no error either.
C27_NoGeometryNoOp ==
    [][(~model.hasGeometry /\ last'.kind \in {"down", "move", "up"})
        => /\ ~last'.out.threw
           /\ last'.out.op # "connect"
                  => /\ model' = model
                     /\ last'.out.ops = 0 /\ last'.out.begins = 0
                     /\ ~last'.out.rebuilt]_vars

\* C28: in every sequence of pointer events a reconnect is committed only to
\* a terminal that the edge-connection validator, asked in the same gesture
\* about that terminal on the dragged end and the edge's other terminal on
\* the other end, found valid (it returned no error), and the validation
\* error the pointer-up consults is the validator's outcome for the terminal
\* the last pointer-move resolved, never one left from an earlier pointer
\* position or from another cell.
C28_ValidatedReconnect ==
    [][(/\ isUp /\ armed /\ last'.moved
        /\ handler.isSource \/ handler.isTarget
        /\ last.ev = "move")
        => /\ last'.out.op = "connect"
                  => isValidStateError(handler, model, last'.out.terminal) = Null
           /\ last.out.terminal # Null
                  => handler.error = isValidStateError(handler, model, last.out.terminal)]_vars

C5_AddRemoveRoundTrip ==
    last.roundTrip
        => /\ last.out.op = "removePoint"
           /\ IsSome(model.geo.points)
           /\ pointsOf(model.geo.points) = pointsOf(Val(last.prePoints))

\* C5 as stated: the waypoint list after the round trip is the one before the
\* add, also when there was no list
C5_SameList ==
    last.roundTrip => model.geo.points = Val(last.prePoints)

\* A waypoint added to an edge with one waypoint has been removed again
C5_Witness ==
    /\ last.roundTrip /\ last.out.op = "removePoint"
    /\ IsSome(Val(last.prePoints)) /\ Len(Val(Val(last.prePoints))) = 1
    /\ model.geo.points = Val(last.prePoints)

\* C6: an endpoint drag released without the clone modifier over a terminal
\* that validation accepted commits exactly one reconnect of the dragged end
\* to that terminal on the same edge: no edge is added, the other end keeps
\* its terminal and the selection stays.
C6_Reconnect ==
    [][(/\ isUp /\ armed /\ last'.moved
        /\ ~handler.isLabel /\ (handler.isSource \/ handler.isTarget)
        /\ handler.error = Null /\ resolved(handler) # Null
        /\ ~last'.out.clone /\ ~last'.out.threw)
        => /\ last'.out.op = "connect" /\ last'.out.ops = 1
           /\ last'.out.begins = 1 /\ last'.out.ends = 1
           /\ model'.clones = model.clones
           /\ model'.selection = model.selection
           /\ IF handler.isSource
              THEN model'.source = resolved(handler) /\ model'.target = model.target
              ELSE model'.target = resolved(handler) /\ model'.source = model.source]_vars

\* The source end has been reconnected from A to C without a clone
C6_Witness ==
    /\ last.ev = "up" /\ last.out.op = "connect" /\ ~last.out.clone /\ ~last.out.threw
    /\ last.gSource = "A" /\ model.source = "C" /\ model.target = last.gTarget
    /\ model.clones = <<>>

\* C7: with add-waypoint enabled, a pointer-down with the add modifier that
\* hits no handle inserts the converted pointer position into the waypoint
\* list at the nearest-segment index during the pointer-down, rebuilds the
\* handler and arms no session; the pointer-moves and the pointer-up that
\* follow change nothing.  C7_Added is what holds once the pointer-down has
\* returned, C7_AddOnPointerDown adds that the steps from there change nothing.
C7_Added ==
    (last.ev = "down" /\ last.adds)
        => LET pre == Val(last.prePoints)
               pt == convertPoint(Val(last.pos), config.gridEnabled)
               before == validate([model EXCEPT !.geo.points = pre]).absolutePoints
               index == findNearestSegment(before, transformControlPoint(pt))
           IN  /\ last.out.op = "addPoint" /\ last.out.rebuilt
               /\ model.geo.points = Some(IF pre = None THEN <<pt>>
                                          ELSE SpliceIn(Val(pre), index, pt))
               /\ handler.index = NoIndex
               /\ handler.marker.present /\ IsSome(handler.bends)
               /\ Len(Val(handler.bends)) = Len(pointsOf(model.geo.points)) + 2

C7_AddOnPointerDown ==
    [][/\ C7_Added
       /\ (last.ev = "down" /\ last.adds /\ pressed)
              => UNCHANGED <<handler, model, view>>]_vars

\* A waypoint has been added between two others while the button is down
C7_Witness ==
    /\ last.ev = "down" /\ last.adds /\ pressed
    /\ last.out.op = "addPoint"
    /\ Len(pointsOf(model.geo.points)) = 2
    /\ last.out.at = 0

\* C8: when an endpoint drag's last pointer-move is over empty space (no
\* terminal resolved, nothing marked) the validation error is the empty string
\* if dangling edges are not allowed and absent if they are; with the empty
\* string the pointer-up shows no alert and changes nothing in the model.
overEmptySpace ==
    /\ last.ev = "move" /\ armed
    /\ handler.isSource \/ handler.isTarget
    /\ last.out.terminal = Null
    /\ handler.marker.markedState = Null

C8_ErrorOverEmptySpace ==
    overEmptySpace => handler.error = IF config.allowDanglingEdges THEN Null ELSE ""

C8_DanglingRefused ==
    [][/\ C8_ErrorOverEmptySpace'
       /\ (overEmptySpace /\ isUp /\ ~config.allowDanglingEdges)
              => /\ last'.out.alert = Null
                 /\ last'.out.ops = 0
                 /\ model' = model]_vars

\* An endpoint drag to empty space has ended with the empty error
C8_Witness ==
    /\ last.ev = "up" /\ last.armed /\ last.moved
    /\ ~config.allowDanglingEdges
    /\ last.error = ""
    /\ last.out.alert = Null /\ last.out.ops = 0

\* C9: a committed label move to the absolute point (x, y) stores the
\* graph-relative point of (x, y) as the geometry's x and y and, as its
\* offset, the residual between (x, y) and the point that anchor gives with a
\* zero offset, divided by the scale, so that the label position of the new
\* geometry is (x, y); waypoints and terminal points stay.
C9_MoveLabel ==
    [][(isUp /\ armed /\ last'.out.op = "moveLabel" /\ ~last'.out.threw)
        => LET p == Val(handler.label)
               rel == getRelativePoint(view.absolutePoints, p.x, p.y)
               g == model'.geo
               anchor == getPoint(view.absolutePoints, [g EXCEPT !.offset = Pt(0, 0)])
           IN  /\ g.x = rel.x /\ g.y = rel.y
               /\ g.offset.x * config.scale = p.x - anchor.x
               /\ g.offset.y * config.scale = p.y - anchor.y
               /\ view'.absoluteOffset = p
               /\ g.points = model.geo.points
               /\ g.sourcePoint = model.geo.sourcePoint
               /\ g.targetPoint = model.geo.targetPoint]_vars

\* A label move at scale 2 has been committed with an offset
C9_Witness ==
    /\ last.ev = "up" /\ last.out.op = "moveLabel" /\ ~last.out.threw
    /\ config.scale = 2
    /\ model.geo.offset # Pt(0, 0)
    /\ model.geo.x # 0

\* Whether the handler h is idle: no handle, no error, no flags, the default
\* colour, and no waypoint in the working copy but the edge's own (reset
\* clears the copy and redraw fills it again from the geometry)
Idle(h) ==
    /\ h.index = NoIndex
    /\ h.error = Null
    /\ ~h.isSource /\ ~h.isTarget /\ ~h.isLabel /\ ~h.active
    /\ \/ h.points = None
       \/ /\ IsSome(model.geo.points)
          /\ \A i \in 1..Len(Val(h.points)) :
                 \/ Val(h.points)[i] = Undefined
                 \/ /\ i <= Len(Val(model.geo.points))
                    /\ Val(h.points)[i] = Val(model.geo.points)[i]
    /\ h.shape.stroke = EDGE_SELECTION_COLOR

\* C10: after every pointer-up received while a session is armed the handler
\* is idle, whether the commit succeeded, was blocked by a validation error,
\* or the model raised an error.
C10_IdleAfterUp ==
    (last.ev = "up" /\ last.armed) => Idle(handler)

====
